---- MODULE Spec2Model ----
(***************************************************************************)
(* MurmurHash3 (vnykmshr/murmur-hash, TypeScript): the three engines       *)
(* hash32, hash128 (x86) and hash128x64, their streaming wrappers and the  *)
(* deprecated v3 shim, modelled as a state machine over a caller's calls.  *)
(*                                                                         *)
(* A JavaScript number holding an integer is the triple <<top, hi, lo>>    *)
(* with value top * 2^32 + hi * 2^16 + lo, 0 <= hi, lo < 2^16 and top any  *)
(* integer: a uint32 has top = 0, an int32 has top = 0 (hi < 2^15) or      *)
(* top = -1 (hi >= 2^15).  The bitwise operators convert their operands    *)
(* as ECMAScript does (ToInt32, ToUint32, shift counts masked to 5 bits).  *)
(***************************************************************************)
EXTENDS Integers, Sequences, FiniteSets, TLC

W16 == 2 ^ 16

\* the element of a singleton set
The(S) == CHOOSE r \in S : TRUE

\* ---- statements in sequence ------------------------------------------------
\* A function body of the source is a numbered list of statements on a record
\* of its local variables: Step(f, i, v) is the record after statement i of
\* body f on the record v, Run(f, lo, hi, v) the record after the statements
\* lo..hi in order (none when lo > hi).  A loop is the statement that runs its
\* body once per iteration, a switch the statement that runs the case list
\* from the matching case to the end (the cases fall through).
RECURSIVE Run(_, _, _, _), Step(_, _, _)
Run(f, lo, hi, v) ==
  IF lo < hi
  THEN CHOOSE r \in {Run(f, ((lo + hi) \div 2) + 1, hi, w) :
                     w \in {Run(f, lo, (lo + hi) \div 2, v)}} : TRUE
  ELSE IF lo = hi THEN Step(f, lo, v) ELSE v

\* ---- numbers -----------------------------------------------------------------
Num(top, hi, lo) == <<top, hi, lo>>

\* a number literal below 2^32 written as its two 16-bit halves
U32(hi, lo) == <<0, hi, lo>>

Zero == U32(0, 0)

\* ECMAScript ToInt32 of an integer-valued number
ToInt32(x) == <<IF x[2] >= 32768 THEN -1 ELSE 0, x[2], x[3]>>

IsUint32(x) == x[1] = 0 /\ x[2] \in 0..65535 /\ x[3] \in 0..65535

\* ---- bitwise operators ------------------------------------------------
\* the truth tables of ^, | and & on 4-bit digits: T[x + 1][y + 1] = x op y
XorNib ==
  <<<< 0,  1,  2,  3,  4,  5,  6,  7,  8,  9, 10, 11, 12, 13, 14, 15>>,
  << 1,  0,  3,  2,  5,  4,  7,  6,  9,  8, 11, 10, 13, 12, 15, 14>>,
  << 2,  3,  0,  1,  6,  7,  4,  5, 10, 11,  8,  9, 14, 15, 12, 13>>,
  << 3,  2,  1,  0,  7,  6,  5,  4, 11, 10,  9,  8, 15, 14, 13, 12>>,
  << 4,  5,  6,  7,  0,  1,  2,  3, 12, 13, 14, 15,  8,  9, 10, 11>>,
  << 5,  4,  7,  6,  1,  0,  3,  2, 13, 12, 15, 14,  9,  8, 11, 10>>,
  << 6,  7,  4,  5,  2,  3,  0,  1, 14, 15, 12, 13, 10, 11,  8,  9>>,
  << 7,  6,  5,  4,  3,  2,  1,  0, 15, 14, 13, 12, 11, 10,  9,  8>>,
  << 8,  9, 10, 11, 12, 13, 14, 15,  0,  1,  2,  3,  4,  5,  6,  7>>,
  << 9,  8, 11, 10, 13, 12, 15, 14,  1,  0,  3,  2,  5,  4,  7,  6>>,
  <<10, 11,  8,  9, 14, 15, 12, 13,  2,  3,  0,  1,  6,  7,  4,  5>>,
  <<11, 10,  9,  8, 15, 14, 13, 12,  3,  2,  1,  0,  7,  6,  5,  4>>,
  <<12, 13, 14, 15,  8,  9, 10, 11,  4,  5,  6,  7,  0,  1,  2,  3>>,
  <<13, 12, 15, 14,  9,  8, 11, 10,  5,  4,  7,  6,  1,  0,  3,  2>>,
  <<14, 15, 12, 13, 10, 11,  8,  9,  6,  7,  4,  5,  2,  3,  0,  1>>,
  <<15, 14, 13, 12, 11, 10,  9,  8,  7,  6,  5,  4,  3,  2,  1,  0>>>>

OrNib ==
  <<<< 0,  1,  2,  3,  4,  5,  6,  7,  8,  9, 10, 11, 12, 13, 14, 15>>,
  << 1,  1,  3,  3,  5,  5,  7,  7,  9,  9, 11, 11, 13, 13, 15, 15>>,
  << 2,  3,  2,  3,  6,  7,  6,  7, 10, 11, 10, 11, 14, 15, 14, 15>>,
  << 3,  3,  3,  3,  7,  7,  7,  7, 11, 11, 11, 11, 15, 15, 15, 15>>,
  << 4,  5,  6,  7,  4,  5,  6,  7, 12, 13, 14, 15, 12, 13, 14, 15>>,
  << 5,  5,  7,  7,  5,  5,  7,  7, 13, 13, 15, 15, 13, 13, 15, 15>>,
  << 6,  7,  6,  7,  6,  7,  6,  7, 14, 15, 14, 15, 14, 15, 14, 15>>,
  << 7,  7,  7,  7,  7,  7,  7,  7, 15, 15, 15, 15, 15, 15, 15, 15>>,
  << 8,  9, 10, 11, 12, 13, 14, 15,  8,  9, 10, 11, 12, 13, 14, 15>>,
  << 9,  9, 11, 11, 13, 13, 15, 15,  9,  9, 11, 11, 13, 13, 15, 15>>,
  <<10, 11, 10, 11, 14, 15, 14, 15, 10, 11, 10, 11, 14, 15, 14, 15>>,
  <<11, 11, 11, 11, 15, 15, 15, 15, 11, 11, 11, 11, 15, 15, 15, 15>>,
  <<12, 13, 14, 15, 12, 13, 14, 15, 12, 13, 14, 15, 12, 13, 14, 15>>,
  <<13, 13, 15, 15, 13, 13, 15, 15, 13, 13, 15, 15, 13, 13, 15, 15>>,
  <<14, 15, 14, 15, 14, 15, 14, 15, 14, 15, 14, 15, 14, 15, 14, 15>>,
  <<15, 15, 15, 15, 15, 15, 15, 15, 15, 15, 15, 15, 15, 15, 15, 15>>>>

AndNib ==
  <<<< 0,  0,  0,  0,  0,  0,  0,  0,  0,  0,  0,  0,  0,  0,  0,  0>>,
  << 0,  1,  0,  1,  0,  1,  0,  1,  0,  1,  0,  1,  0,  1,  0,  1>>,
  << 0,  0,  2,  2,  0,  0,  2,  2,  0,  0,  2,  2,  0,  0,  2,  2>>,
  << 0,  1,  2,  3,  0,  1,  2,  3,  0,  1,  2,  3,  0,  1,  2,  3>>,
  << 0,  0,  0,  0,  4,  4,  4,  4,  0,  0,  0,  0,  4,  4,  4,  4>>,
  << 0,  1,  0,  1,  4,  5,  4,  5,  0,  1,  0,  1,  4,  5,  4,  5>>,
  << 0,  0,  2,  2,  4,  4,  6,  6,  0,  0,  2,  2,  4,  4,  6,  6>>,
  << 0,  1,  2,  3,  4,  5,  6,  7,  0,  1,  2,  3,  4,  5,  6,  7>>,
  << 0,  0,  0,  0,  0,  0,  0,  0,  8,  8,  8,  8,  8,  8,  8,  8>>,
  << 0,  1,  0,  1,  0,  1,  0,  1,  8,  9,  8,  9,  8,  9,  8,  9>>,
  << 0,  0,  2,  2,  0,  0,  2,  2,  8,  8, 10, 10,  8,  8, 10, 10>>,
  << 0,  1,  2,  3,  0,  1,  2,  3,  8,  9, 10, 11,  8,  9, 10, 11>>,
  << 0,  0,  0,  0,  4,  4,  4,  4,  8,  8,  8,  8, 12, 12, 12, 12>>,
  << 0,  1,  0,  1,  4,  5,  4,  5,  8,  9,  8,  9, 12, 13, 12, 13>>,
  << 0,  0,  2,  2,  4,  4,  6,  6,  8,  8, 10, 10, 12, 12, 14, 14>>,
  << 0,  1,  2,  3,  4,  5,  6,  7,  8,  9, 10, 11, 12, 13, 14, 15>>>>

\* the operator of table T on two 16-bit limbs, digit by digit
Bits16(T, a, b) ==
    (T[(a \div 4096) + 1][(b \div 4096) + 1] * 4096)
  + (T[((a \div 256) % 16) + 1][((b \div 256) % 16) + 1] * 256)
  + (T[((a \div 16) % 16) + 1][((b \div 16) % 16) + 1] * 16)
  + T[(a % 16) + 1][(b % 16) + 1]

Bits32(T, a, b) ==
  LET h == Bits16(T, a[2], b[2])
  IN  <<IF h >= 32768 THEN -1 ELSE 0, h, Bits16(T, a[3], b[3])>>

\* a ^ b, a | b, a & b : operands ToInt32, result int32
Xor(a, b) == Bits32(XorNib, a, b)
Or(a, b)  == Bits32(OrNib, a, b)
And(a, b) == Bits32(AndNib, a, b)

ShlBits(a, s) ==
  IF s >= 16
  THEN ToInt32(<<0, (a[3] * (2 ^ (s - 16))) % W16, 0>>)
  ELSE LET l == a[3] * (2 ^ s)
       IN  ToInt32(<<0, ((a[2] * (2 ^ s)) + (l \div W16)) % W16, l % W16>>)

UshrBits(a, s) ==
  IF s >= 16
  THEN <<0, 0, a[2] \div (2 ^ (s - 16))>>
  ELSE <<0, a[2] \div (2 ^ s),
         (a[3] \div (2 ^ s)) + ((a[2] % (2 ^ s)) * (2 ^ (16 - s)))>>

\* a << n : ToInt32(a) shifted left by (n & 31), result int32
Shl(a, n) == ShlBits(a, n % 32)

\* a >>> n : ToUint32(a) shifted right by (n & 31), result uint32
Ushr(a, n) == UshrBits(a, n % 32)

\* a + b on numbers (exact)
Add(a, b) ==
  LET l == a[3] + b[3]
      h == a[2] + b[2] + (l \div W16)
  IN  <<a[1] + b[1] + (h \div W16), h % W16, l % W16>>

\* x * y modulo 2^16 and floor(x * y / 2^16), for x, y in 0..65535
MulLo16(x, y) ==
  ((x * (y % 256)) + ((x * (y \div 256)) % 256) * 256) % W16

MulHi16(x, y) ==
  (((x * (y % 256)) + ((x * (y \div 256)) % 256) * 256) \div W16)
    + ((x * (y \div 256)) \div 256)

\* a * b (exact) for a in 0..65535 and b a uint32: the products the code forms
Times(a, b) ==
  LET t == MulLo16(a[3], b[2]) + MulHi16(a[3], b[3])
  IN  <<MulHi16(a[3], b[2]) + (t \div W16), t % W16, MulLo16(a[3], b[3])>>

MASK16 == U32(0, \HFFFF)

\* a small non-negative integer (a length, an index, a byte) as a number
NumOf(n) == <<0, n \div W16, n % W16>>

\* bytes[i] of a Uint8Array (0-based); a read past the end yields undefined,
\* which the bitwise operators convert to 0
ByteAt(bytes, i) == IF i + 1 \in DOMAIN bytes THEN NumOf(bytes[i + 1]) ELSE Zero

\* bytes[o] | bytes[o+1] << 8 | bytes[o+2] << 16 | bytes[o+3] << 24
Word32LE(bytes, o) ==
  Or(Or(Or(ByteAt(bytes, o), Shl(ByteAt(bytes, o + 1), 8)),
        Shl(ByteAt(bytes, o + 2), 16)),
     Shl(ByteAt(bytes, o + 3), 24))

\* ---- src/hash32.ts, src/hash128.ts: the helpers both files define ----------
\* a variant of multiply that leaves out the product of the high half:
\*   ((a & 0xffff) * b) | 0
multiplyLow(a, b) == Or(Times(And(a, MASK16), b), Zero)

\* a variant of multiply for a first operand of 32 bits: an operand beyond
\* the int32 and uint32 ranges is clamped to the nearest of their ends
multiplyClamped(a, b) ==
  The({Or(Add(Times(And(c, MASK16), b),
              Shl(And(Times(Ushr(c, 16), b), MASK16), 16)),
          Zero) :
         c \in {IF a[1] > 0 THEN U32(\HFFFF, \HFFFF)
                ELSE IF a[1] < -1 THEN Num(-1, \H8000, 0) ELSE a}})

\* a variant of multiply that leaves the high partial product where it is:
\*   ((a & 0xffff) * b + (((a >>> 16) * b) & 0xffff)) | 0
multiplyUnshifted(a, b) ==
  Or(Add(Times(And(a, MASK16), b),
         And(Times(Ushr(a, 16), b), MASK16)),
     Zero)

\* 32-bit multiplication with overflow handling
\*   ((a & 0xffff) * b + ((((a >>> 16) * b) & 0xffff) << 16)) | 0
multiply(a, b) ==
  Or(Add(Times(And(a, MASK16), b),
         Shl(And(Times(Ushr(a, 16), b), MASK16), 16)),
     Zero)

\* the values multiply forms on the way, in the order it forms them:
\*   a & 0xffff, (a & 0xffff) * b, a >>> 16, (a >>> 16) * b, ... & 0xffff,
\*   ... << 16, and the sum that | 0 truncates
multiplyTerms(a, b) ==
  <<And(a, MASK16),
    Times(And(a, MASK16), b),
    Ushr(a, 16),
    Times(Ushr(a, 16), b),
    And(Times(Ushr(a, 16), b), MASK16),
    Shl(And(Times(Ushr(a, 16), b), MASK16), 16),
    Add(Times(And(a, MASK16), b), Shl(And(Times(Ushr(a, 16), b), MASK16), 16))>>

\* a variant of rotl that loses the bits shifted out: value << shift
rotlNoWrap(value, shift) == Shl(value, shift)

\* 32-bit rotate left: (value << shift) | (value >>> (32 - shift))
rotl(value, shift) == Or(Shl(value, shift), Ushr(value, 32 - shift))

\* the statements of fmix on its parameter h
fmixStep(i, v) ==
  CASE i = 1 -> [v EXCEPT !.h = Xor(v.h, Ushr(v.h, 16))]          \* h ^= h >>> 16
    [] i = 2 -> [v EXCEPT !.h = multiply(v.h, U32(\H85EB, \HCA6B))] \* h = multiply(h, 0x85ebca6b)
    [] i = 3 -> [v EXCEPT !.h = Xor(v.h, Ushr(v.h, 13))]          \* h ^= h >>> 13
    [] i = 4 -> [v EXCEPT !.h = multiply(v.h, U32(\HC2B2, \HAE35))] \* h = multiply(h, 0xc2b2ae35)
    [] i = 5 -> [v EXCEPT !.h = Xor(v.h, Ushr(v.h, 16))]          \* h ^= h >>> 16

\* final mix
fmix(h) == Run("fmix", 1, 5, [h |-> h]).h

\* ---- src/hash32.ts ------------------------------------------------------
C1_32 == U32(\HCC9E, \H2D51)
C2_32 == U32(\H1B87, \H3593)

\* the body of for (let i = 0; i < blocks; i++): statement s of iteration i
compute32For(i, s, v) ==
  CASE s = 1 -> [v EXCEPT !.offset = i * 4]
    [] s = 2 -> [v EXCEPT !.k1 = Word32LE(v.bytes, v.offset)]
    [] s = 3 -> [v EXCEPT !.k1 = multiply(v.k1, C1_32)]
    [] s = 4 -> [v EXCEPT !.k1 = rotl(v.k1, 15)]
    [] s = 5 -> [v EXCEPT !.k1 = multiply(v.k1, C2_32)]
    [] s = 6 -> [v EXCEPT !.h1 = Xor(v.h1, v.k1)]
    [] s = 7 -> [v EXCEPT !.h1 = rotl(v.h1, 13)]
    [] s = 8 -> [v EXCEPT !.h1 = Add(multiply(v.h1, U32(0, 5)), U32(\HE654, \H6B64))]

\* the case list of switch (len & 3)
compute32Switch(s, v) ==
  CASE s = 1 -> [v EXCEPT !.k1 = Xor(v.k1, Shl(ByteAt(v.bytes, v.tailOffset + 2), 16))] \* case 3
    [] s = 2 -> [v EXCEPT !.k1 = Xor(v.k1, Shl(ByteAt(v.bytes, v.tailOffset + 1), 8))]  \* case 2
    [] s = 3 -> [v EXCEPT !.k1 = Xor(v.k1, ByteAt(v.bytes, v.tailOffset))]              \* case 1
    [] s = 4 -> [v EXCEPT !.k1 = multiply(v.k1, C1_32)]
    [] s = 5 -> [v EXCEPT !.k1 = rotl(v.k1, 15)]
    [] s = 6 -> [v EXCEPT !.k1 = multiply(v.k1, C2_32)]
    [] s = 7 -> [v EXCEPT !.h1 = Xor(v.h1, v.k1)]

\* the statement the switch enters at when len & 3 is rem (past the end for 0)
switchEntry32(rem) == IF rem = 0 THEN 8 ELSE 4 - rem

\* a variant of toUnsigned that returns the accumulator as it is: h1
toSigned(h1) == h1

\* h1 >>> 0: convert to unsigned
toUnsigned(h1) == Ushr(h1, 0)

compute32Step(s, v) ==
  CASE s = 1  -> [v EXCEPT !.len = Len(v.bytes)]
    [] s = 2  -> [v EXCEPT !.blocks = v.len \div 4]                \* len >>> 2
    [] s = 3  -> [v EXCEPT !.h1 = v.seed]
    [] s = 4  -> Run("compute32.for", 1, v.blocks * 8, v)
    [] s = 5  -> [v EXCEPT !.tailOffset = v.blocks * 4]
    [] s = 6  -> [v EXCEPT !.k1 = Zero]
    [] s = 7  -> Run("compute32.switch", switchEntry32(v.len % 4), 7, v)
    [] s = 8  -> [v EXCEPT !.h1 = Xor(v.h1, NumOf(v.len))]         \* h1 ^= len
    [] s = 9  -> [v EXCEPT !.h1 = fmix(v.h1)]
    [] s = 10 -> [v EXCEPT !.return = toUnsigned(v.h1)]            \* return h1 >>> 0

compute32(bytes, seed) ==
  Run("compute32", 1, 10,
      [bytes |-> bytes, seed |-> seed, len |-> 0, blocks |-> 0, h1 |-> Zero,
       offset |-> 0, k1 |-> Zero, tailOffset |-> 0, return |-> Zero]).return

\* ---- hex output ---------------------------------------------------------
HexDigit == <<"0", "1", "2", "3", "4", "5", "6", "7",
              "8", "9", "a", "b", "c", "d", "e", "f">>

\* Number.prototype.toString(16) of n in 0..65535: no leading zeros
RECURSIVE toString16Small(_)
toString16Small(n) ==
  IF n < 16 THEN HexDigit[n + 1]
  ELSE toString16Small(n \div 16) \o HexDigit[(n % 16) + 1]

\* the four digits of a 16-bit limb that follows a higher digit
FourDigits(n) ==
  HexDigit[(n \div 4096) + 1] \o HexDigit[((n \div 256) % 16) + 1]
    \o HexDigit[((n \div 16) % 16) + 1] \o HexDigit[(n % 16) + 1]

\* u.toString(16) for a uint32 u
toString16(u) ==
  IF u[2] = 0 THEN toString16Small(u[3])
  ELSE toString16Small(u[2]) \o FourDigits(u[3])

\* String.prototype.slice(-n)
sliceLast(str, n) ==
  IF Len(str) <= n THEN str ELSE SubSeq(str, Len(str) - n + 1, Len(str))

\* a variant of hex8 without the padding: (h >>> 0).toString(16)
hex8NoPad(h) == toString16(Ushr(h, 0))

\* ('00000000' + (h >>> 0).toString(16)).slice(-8)
hex8(h) == sliceLast("00000000" \o toString16(Ushr(h, 0)), 8)

\* ---- src/hash128.ts -----------------------------------------------------
C1 == U32(\H239B, \H961B)
C2 == U32(\HAB0E, \H9789)
C3 == U32(\H38B3, \H4AE5)
C4 == U32(\HA1E3, \H8B93)

\* the body of for (let i = 0; i < blocks; i++): statement s of iteration i
compute128For(i, s, v) ==
  CASE s = 1  -> [v EXCEPT !.offset = i * 16]
    [] s = 2  -> [v EXCEPT !.k1 = Word32LE(v.bytes, v.offset)]
    [] s = 3  -> [v EXCEPT !.k2 = Word32LE(v.bytes, v.offset + 4)]
    [] s = 4  -> [v EXCEPT !.k3 = Word32LE(v.bytes, v.offset + 8)]
    [] s = 5  -> [v EXCEPT !.k4 = Word32LE(v.bytes, v.offset + 12)]
    [] s = 6  -> [v EXCEPT !.k1 = multiply(v.k1, C1)]
    [] s = 7  -> [v EXCEPT !.k1 = rotl(v.k1, 15)]
    [] s = 8  -> [v EXCEPT !.k1 = multiply(v.k1, C2)]
    [] s = 9  -> [v EXCEPT !.h1 = Xor(v.h1, v.k1)]
    [] s = 10 -> [v EXCEPT !.h1 = rotl(v.h1, 19)]
    [] s = 11 -> [v EXCEPT !.h1 = Add(v.h1, v.h2)]
    [] s = 12 -> [v EXCEPT !.h1 = Add(multiply(v.h1, U32(0, 5)), U32(\H561C, \HCD1B))]
    [] s = 13 -> [v EXCEPT !.k2 = multiply(v.k2, C2)]
    [] s = 14 -> [v EXCEPT !.k2 = rotl(v.k2, 16)]
    [] s = 15 -> [v EXCEPT !.k2 = multiply(v.k2, C3)]
    [] s = 16 -> [v EXCEPT !.h2 = Xor(v.h2, v.k2)]
    [] s = 17 -> [v EXCEPT !.h2 = rotl(v.h2, 17)]
    [] s = 18 -> [v EXCEPT !.h2 = Add(v.h2, v.h3)]
    [] s = 19 -> [v EXCEPT !.h2 = Add(multiply(v.h2, U32(0, 5)), U32(\H0BCA, \HA747))]
    [] s = 20 -> [v EXCEPT !.k3 = multiply(v.k3, C3)]
    [] s = 21 -> [v EXCEPT !.k3 = rotl(v.k3, 17)]
    [] s = 22 -> [v EXCEPT !.k3 = multiply(v.k3, C4)]
    [] s = 23 -> [v EXCEPT !.h3 = Xor(v.h3, v.k3)]
    [] s = 24 -> [v EXCEPT !.h3 = rotl(v.h3, 15)]
    [] s = 25 -> [v EXCEPT !.h3 = Add(v.h3, v.h4)]
    [] s = 26 -> [v EXCEPT !.h3 = Add(multiply(v.h3, U32(0, 5)), U32(\H96CD, \H1C35))]
    [] s = 27 -> [v EXCEPT !.k4 = multiply(v.k4, C4)]
    [] s = 28 -> [v EXCEPT !.k4 = rotl(v.k4, 18)]
    [] s = 29 -> [v EXCEPT !.k4 = multiply(v.k4, C1)]
    [] s = 30 -> [v EXCEPT !.h4 = Xor(v.h4, v.k4)]
    [] s = 31 -> [v EXCEPT !.h4 = rotl(v.h4, 13)]
    [] s = 32 -> [v EXCEPT !.h4 = Add(v.h4, v.h1)]
    [] s = 33 -> [v EXCEPT !.h4 = Add(multiply(v.h4, U32(0, 5)), U32(\H32AC, \H3B17))]

\* the case list of switch (len & 15), from case 15 down to case 1
compute128Switch(s, v) ==
  CASE s = 1  -> [v EXCEPT !.k4 = Xor(v.k4, Shl(ByteAt(v.bytes, v.tailOffset + 14), 16))]   \* case 15
    [] s = 2  -> [v EXCEPT !.k4 = Xor(v.k4, Shl(ByteAt(v.bytes, v.tailOffset + 13), 8))]    \* case 14
    [] s = 3  -> [v EXCEPT !.k4 = Xor(v.k4, ByteAt(v.bytes, v.tailOffset + 12))]            \* case 13
    [] s = 4  -> [v EXCEPT !.k4 = multiply(v.k4, C4)]
    [] s = 5  -> [v EXCEPT !.k4 = rotl(v.k4, 18)]
    [] s = 6  -> [v EXCEPT !.k4 = multiply(v.k4, C1)]
    [] s = 7  -> [v EXCEPT !.h4 = Xor(v.h4, v.k4)]
    [] s = 8  -> [v EXCEPT !.k3 = Xor(v.k3, Shl(ByteAt(v.bytes, v.tailOffset + 11), 24))]   \* case 12
    [] s = 9  -> [v EXCEPT !.k3 = Xor(v.k3, Shl(ByteAt(v.bytes, v.tailOffset + 10), 16))]   \* case 11
    [] s = 10 -> [v EXCEPT !.k3 = Xor(v.k3, Shl(ByteAt(v.bytes, v.tailOffset + 9), 8))]     \* case 10
    [] s = 11 -> [v EXCEPT !.k3 = Xor(v.k3, ByteAt(v.bytes, v.tailOffset + 8))]             \* case 9
    [] s = 12 -> [v EXCEPT !.k3 = multiply(v.k3, C3)]
    [] s = 13 -> [v EXCEPT !.k3 = rotl(v.k3, 17)]
    [] s = 14 -> [v EXCEPT !.k3 = multiply(v.k3, C4)]
    [] s = 15 -> [v EXCEPT !.h3 = Xor(v.h3, v.k3)]
    [] s = 16 -> [v EXCEPT !.k2 = Xor(v.k2, Shl(ByteAt(v.bytes, v.tailOffset + 7), 24))]    \* case 8
    [] s = 17 -> [v EXCEPT !.k2 = Xor(v.k2, Shl(ByteAt(v.bytes, v.tailOffset + 6), 16))]    \* case 7
    [] s = 18 -> [v EXCEPT !.k2 = Xor(v.k2, Shl(ByteAt(v.bytes, v.tailOffset + 5), 8))]     \* case 6
    [] s = 19 -> [v EXCEPT !.k2 = Xor(v.k2, ByteAt(v.bytes, v.tailOffset + 4))]             \* case 5
    [] s = 20 -> [v EXCEPT !.k2 = multiply(v.k2, C2)]
    [] s = 21 -> [v EXCEPT !.k2 = rotl(v.k2, 16)]
    [] s = 22 -> [v EXCEPT !.k2 = multiply(v.k2, C3)]
    [] s = 23 -> [v EXCEPT !.h2 = Xor(v.h2, v.k2)]
    [] s = 24 -> [v EXCEPT !.k1 = Xor(v.k1, Shl(ByteAt(v.bytes, v.tailOffset + 3), 24))]    \* case 4
    [] s = 25 -> [v EXCEPT !.k1 = Xor(v.k1, Shl(ByteAt(v.bytes, v.tailOffset + 2), 16))]    \* case 3
    [] s = 26 -> [v EXCEPT !.k1 = Xor(v.k1, Shl(ByteAt(v.bytes, v.tailOffset + 1), 8))]     \* case 2
    [] s = 27 -> [v EXCEPT !.k1 = Xor(v.k1, ByteAt(v.bytes, v.tailOffset))]                 \* case 1
    [] s = 28 -> [v EXCEPT !.k1 = multiply(v.k1, C1)]
    [] s = 29 -> [v EXCEPT !.k1 = rotl(v.k1, 15)]
    [] s = 30 -> [v EXCEPT !.k1 = multiply(v.k1, C2)]
    [] s = 31 -> [v EXCEPT !.h1 = Xor(v.h1, v.k1)]

\* a variant of switchEntry128 that enters no case: the tail bytes are left out
switchEntry128Skip(rem) == 32

\* a variant of switchEntry128 that enters one statement late: the last tail
\* byte is left out of its partial word
switchEntry128Late(rem) ==
  IF rem = 0 THEN 32
  ELSE <<28, 27, 26, 25, 20, 19, 18, 17, 12, 11, 10, 9, 4, 3, 2>>[rem]

\* the statement the switch enters at when len & 15 is rem (past the end for 0)
switchEntry128(rem) ==
  IF rem = 0 THEN 32
  ELSE <<27, 26, 25, 24, 19, 18, 17, 16, 11, 10, 9, 8, 3, 2, 1>>[rem]

compute128Step(s, v) ==
  CASE s = 1  -> [v EXCEPT !.len = Len(v.bytes)]
    [] s = 2  -> [v EXCEPT !.blocks = v.len \div 16]               \* len >>> 4
    [] s = 3  -> [v EXCEPT !.h1 = v.seed]
    [] s = 4  -> [v EXCEPT !.h2 = v.seed]
    [] s = 5  -> [v EXCEPT !.h3 = v.seed]
    [] s = 6  -> [v EXCEPT !.h4 = v.seed]
    [] s = 7  -> Run("compute128.for", 1, v.blocks * 33, v)
    [] s = 8  -> [v EXCEPT !.tailOffset = v.blocks * 16]
    [] s = 9  -> [v EXCEPT !.k1 = Zero]
    [] s = 10 -> [v EXCEPT !.k2 = Zero]
    [] s = 11 -> [v EXCEPT !.k3 = Zero]
    [] s = 12 -> [v EXCEPT !.k4 = Zero]
    [] s = 13 -> Run("compute128.switch", switchEntry128(v.len % 16), 31, v)
    [] s = 14 -> [v EXCEPT !.h1 = Xor(v.h1, NumOf(v.len))]         \* h1 ^= len
    [] s = 15 -> [v EXCEPT !.h2 = Xor(v.h2, NumOf(v.len))]
    [] s = 16 -> [v EXCEPT !.h3 = Xor(v.h3, NumOf(v.len))]
    [] s = 17 -> [v EXCEPT !.h4 = Xor(v.h4, NumOf(v.len))]
    [] s = 18 -> [v EXCEPT !.h1 = Add(v.h1, v.h2)]                 \* h1 += h2
    [] s = 19 -> [v EXCEPT !.h1 = Add(v.h1, v.h3)]
    [] s = 20 -> [v EXCEPT !.h1 = Add(v.h1, v.h4)]
    [] s = 21 -> [v EXCEPT !.h2 = Add(v.h2, v.h1)]
    [] s = 22 -> [v EXCEPT !.h3 = Add(v.h3, v.h1)]
    [] s = 23 -> [v EXCEPT !.h4 = Add(v.h4, v.h1)]
    [] s = 24 -> [v EXCEPT !.h1 = fmix(v.h1)]
    [] s = 25 -> [v EXCEPT !.h2 = fmix(v.h2)]
    [] s = 26 -> [v EXCEPT !.h3 = fmix(v.h3)]
    [] s = 27 -> [v EXCEPT !.h4 = fmix(v.h4)]
    [] s = 28 -> [v EXCEPT !.h1 = Add(v.h1, v.h2)]
    [] s = 29 -> [v EXCEPT !.h1 = Add(v.h1, v.h3)]
    [] s = 30 -> [v EXCEPT !.h1 = Add(v.h1, v.h4)]
    [] s = 31 -> [v EXCEPT !.h2 = Add(v.h2, v.h1)]
    [] s = 32 -> [v EXCEPT !.h3 = Add(v.h3, v.h1)]
    [] s = 33 -> [v EXCEPT !.h4 = Add(v.h4, v.h1)]
    [] s = 34 -> [v EXCEPT !.return =
                    hex8(v.h1) \o hex8(v.h2) \o hex8(v.h3) \o hex8(v.h4)]

\* the local variables of compute when it is entered
locals128(bytes, seed) ==
  [bytes |-> bytes, seed |-> seed, len |-> 0, blocks |-> 0,
   h1 |-> Zero, h2 |-> Zero, h3 |-> Zero, h4 |-> Zero, offset |-> 0,
   k1 |-> Zero, k2 |-> Zero, k3 |-> Zero, k4 |-> Zero, tailOffset |-> 0,
   return |-> ""]

\* the lanes <<h1, h2, h3, h4>> when compute reaches its return statement
lanes128(bytes, seed) ==
  The({<<v.h1, v.h2, v.h3, v.h4>> :
         v \in {Run("compute128", 1, 33, locals128(bytes, seed))}})

\* a variant of compute without the last statement of its finalization,
\* h4 += h1
compute128NoLastAdd(bytes, seed) ==
  The({Run("compute128", 34, 34, v) :
         v \in {Run("compute128", 1, 32, locals128(bytes, seed))}}).return

compute128(bytes, seed) == Run("compute128", 1, 34, locals128(bytes, seed)).return


\* ---- src/hash128x64.ts --------------------------------------------------
\* a 64-bit value is the array [hi, lo] of two 32-bit numbers: <<hi, lo>>
C1_64 == <<U32(\H87C3, \H7B91), U32(\H1142, \H53D5)>>
C2_64 == <<U32(\H4CF5, \HAD43), U32(\H2745, \H937F)>>

\* the local variables of add64 and of multiply64 when they are entered
locals64(a, b) ==
  [a |-> a, b |-> b, a0 |-> Zero, a1 |-> Zero, a2 |-> Zero, a3 |-> Zero,
   b0 |-> Zero, b1 |-> Zero, b2 |-> Zero, b3 |-> Zero,
   c0 |-> Zero, c1 |-> Zero, c2 |-> Zero, c3 |-> Zero, return |-> <<Zero, Zero>>]

add64Step(s, v) ==
  CASE s = 1  -> [v EXCEPT !.a0 = Ushr(v.a[1], 16), !.a1 = And(v.a[1], MASK16),
                           !.a2 = Ushr(v.a[2], 16), !.a3 = And(v.a[2], MASK16)]
    [] s = 2  -> [v EXCEPT !.b0 = Ushr(v.b[1], 16), !.b1 = And(v.b[1], MASK16),
                           !.b2 = Ushr(v.b[2], 16), !.b3 = And(v.b[2], MASK16)]
    [] s = 3  -> [v EXCEPT !.c0 = Zero, !.c1 = Zero, !.c2 = Zero, !.c3 = Zero]
    [] s = 4  -> [v EXCEPT !.c3 = Add(v.c3, Add(v.a3, v.b3))]      \* c3 += a3 + b3
    [] s = 5  -> [v EXCEPT !.c2 = Add(v.c2, Ushr(v.c3, 16))]       \* c2 += c3 >>> 16
    [] s = 6  -> [v EXCEPT !.c3 = And(v.c3, MASK16)]               \* c3 &= 0xffff
    [] s = 7  -> [v EXCEPT !.c2 = Add(v.c2, Add(v.a2, v.b2))]      \* c2 += a2 + b2
    [] s = 8  -> [v EXCEPT !.c1 = Add(v.c1, Ushr(v.c2, 16))]       \* c1 += c2 >>> 16
    [] s = 9  -> [v EXCEPT !.c2 = And(v.c2, MASK16)]               \* c2 &= 0xffff
    [] s = 10 -> [v EXCEPT !.c1 = Add(v.c1, Add(v.a1, v.b1))]      \* c1 += a1 + b1
    [] s = 11 -> [v EXCEPT !.c0 = Add(v.c0, Ushr(v.c1, 16))]       \* c0 += c1 >>> 16
    [] s = 12 -> [v EXCEPT !.c1 = And(v.c1, MASK16)]               \* c1 &= 0xffff
    [] s = 13 -> [v EXCEPT !.c0 = Add(v.c0, Add(v.a0, v.b0))]      \* c0 += a0 + b0
    [] s = 14 -> [v EXCEPT !.c0 = And(v.c0, MASK16)]               \* c0 &= 0xffff
    [] s = 15 -> [v EXCEPT !.return = <<Or(Shl(v.c0, 16), v.c1), Or(Shl(v.c2, 16), v.c3)>>]

\* 64-bit addition
add64(a, b) == Run("add64", 1, 15, locals64(a, b)).return

multiply64Step(s, v) ==
  CASE s = 1  -> [v EXCEPT !.a0 = Ushr(v.a[1], 16), !.a1 = And(v.a[1], MASK16),
                           !.a2 = Ushr(v.a[2], 16), !.a3 = And(v.a[2], MASK16)]
    [] s = 2  -> [v EXCEPT !.b0 = Ushr(v.b[1], 16), !.b1 = And(v.b[1], MASK16),
                           !.b2 = Ushr(v.b[2], 16), !.b3 = And(v.b[2], MASK16)]
    [] s = 3  -> [v EXCEPT !.c0 = Zero, !.c1 = Zero, !.c2 = Zero, !.c3 = Zero]
    [] s = 4  -> [v EXCEPT !.c3 = Add(v.c3, Times(v.a3, v.b3))]    \* c3 += a3 * b3
    [] s = 5  -> [v EXCEPT !.c2 = Add(v.c2, Ushr(v.c3, 16))]       \* c2 += c3 >>> 16
    [] s = 6  -> [v EXCEPT !.c3 = And(v.c3, MASK16)]               \* c3 &= 0xffff
    [] s = 7  -> [v EXCEPT !.c2 = Add(v.c2, Times(v.a2, v.b3))]    \* c2 += a2 * b3
    [] s = 8  -> [v EXCEPT !.c1 = Add(v.c1, Ushr(v.c2, 16))]       \* c1 += c2 >>> 16
    [] s = 9  -> [v EXCEPT !.c2 = And(v.c2, MASK16)]               \* c2 &= 0xffff
    [] s = 10 -> [v EXCEPT !.c2 = Add(v.c2, Times(v.a3, v.b2))]    \* c2 += a3 * b2
    [] s = 11 -> [v EXCEPT !.c1 = Add(v.c1, Ushr(v.c2, 16))]       \* c1 += c2 >>> 16
    [] s = 12 -> [v EXCEPT !.c2 = And(v.c2, MASK16)]               \* c2 &= 0xffff
    [] s = 13 -> [v EXCEPT !.c1 = Add(v.c1, Times(v.a1, v.b3))]    \* c1 += a1 * b3
    [] s = 14 -> [v EXCEPT !.c0 = Add(v.c0, Ushr(v.c1, 16))]       \* c0 += c1 >>> 16
    [] s = 15 -> [v EXCEPT !.c1 = And(v.c1, MASK16)]               \* c1 &= 0xffff
    [] s = 16 -> [v EXCEPT !.c1 = Add(v.c1, Times(v.a2, v.b2))]    \* c1 += a2 * b2
    [] s = 17 -> [v EXCEPT !.c0 = Add(v.c0, Ushr(v.c1, 16))]       \* c0 += c1 >>> 16
    [] s = 18 -> [v EXCEPT !.c1 = And(v.c1, MASK16)]               \* c1 &= 0xffff
    [] s = 19 -> [v EXCEPT !.c1 = Add(v.c1, Times(v.a3, v.b1))]    \* c1 += a3 * b1
    [] s = 20 -> [v EXCEPT !.c0 = Add(v.c0, Ushr(v.c1, 16))]       \* c0 += c1 >>> 16
    [] s = 21 -> [v EXCEPT !.c1 = And(v.c1, MASK16)]               \* c1 &= 0xffff
    \* c0 += a0 * b3 + a1 * b2 + a2 * b1 + a3 * b0
    [] s = 22 -> [v EXCEPT !.c0 =
                    Add(v.c0, Add(Add(Add(Times(v.a0, v.b3), Times(v.a1, v.b2)),
                                      Times(v.a2, v.b1)), Times(v.a3, v.b0)))]
    [] s = 23 -> [v EXCEPT !.c0 = And(v.c0, MASK16)]               \* c0 &= 0xffff
    [] s = 24 -> [v EXCEPT !.return = <<Or(Shl(v.c0, 16), v.c1), Or(Shl(v.c2, 16), v.c3)>>]

\* a variant of multiply64 without its statement c2 += c3 >>> 16: the carry
\* out of the lowest limb is lost when the limb is masked
multiply64LostCarry(a, b) ==
  The({Run("multiply64", 6, 24, v) : v \in {Run("multiply64", 1, 4, locals64(a, b))}}).return

\* 64-bit multiplication
multiply64(a, b) == Run("multiply64", 1, 24, locals64(a, b)).return

\* a variant of rotl64 that handles every n as the code handles n < 32
rotl64Low(m, n) ==
  <<Or(Shl(m[1], n % 64), Ushr(m[2], 32 - (n % 64))),
    Or(Shl(m[2], n % 64), Ushr(m[1], 32 - (n % 64)))>>

\* 64-bit rotate left, n %= 64 first
rotl64(m, n) ==
  IF n % 64 = 32 THEN <<m[2], m[1]>>
  ELSE IF n % 64 < 32
  THEN <<Or(Shl(m[1], n % 64), Ushr(m[2], 32 - (n % 64))),
         Or(Shl(m[2], n % 64), Ushr(m[1], 32 - (n % 64)))>>
  ELSE <<Or(Shl(m[2], (n % 64) - 32), Ushr(m[1], 32 - ((n % 64) - 32))),
         Or(Shl(m[1], (n % 64) - 32), Ushr(m[2], 32 - ((n % 64) - 32)))>>

\* 64-bit left shift, n %= 64 first
lshift64(m, n) ==
  IF n % 64 = 0 THEN m
  ELSE IF n % 64 < 32
  THEN <<Or(Shl(m[1], n % 64), Ushr(m[2], 32 - (n % 64))), Shl(m[2], n % 64)>>
  ELSE <<Shl(m[2], (n % 64) - 32), Zero>>

\* 64-bit XOR
xor64(a, b) == <<Xor(a[1], b[1]), Xor(a[2], b[2])>>

\* the statements of fmix64 on its parameter h
fmix64Step(s, v) ==
  CASE s = 1 -> [v EXCEPT !.h = xor64(v.h, <<Zero, Ushr(v.h[1], 1)>>)]
    [] s = 2 -> [v EXCEPT !.h = multiply64(v.h, <<U32(\HFF51, \HAFD7), U32(\HED55, \H8CCD)>>)]
    [] s = 3 -> [v EXCEPT !.h = xor64(v.h, <<Zero, Ushr(v.h[1], 1)>>)]
    [] s = 4 -> [v EXCEPT !.h = multiply64(v.h, <<U32(\HC4CE, \HB9FE), U32(\H1A85, \HEC53)>>)]
    [] s = 5 -> [v EXCEPT !.h = xor64(v.h, <<Zero, Ushr(v.h[1], 1)>>)]

\* final mix for 64-bit
fmix64(h) == Run("fmix64", 1, 5, [h |-> h]).h

\* the body of for (let i = 0; i < blocks; i++): statement s of iteration i
compute128x64For(i, s, v) ==
  CASE s = 1  -> [v EXCEPT !.offset = i * 16]
    [] s = 2  -> [v EXCEPT !.k1 = <<Word32LE(v.bytes, v.offset + 4), Word32LE(v.bytes, v.offset)>>]
    [] s = 3  -> [v EXCEPT !.k2 = <<Word32LE(v.bytes, v.offset + 12), Word32LE(v.bytes, v.offset + 8)>>]
    [] s = 4  -> [v EXCEPT !.k1 = multiply64(v.k1, C1_64)]
    [] s = 5  -> [v EXCEPT !.k1 = rotl64(v.k1, 31)]
    [] s = 6  -> [v EXCEPT !.k1 = multiply64(v.k1, C2_64)]
    [] s = 7  -> [v EXCEPT !.h1 = xor64(v.h1, v.k1)]
    [] s = 8  -> [v EXCEPT !.h1 = rotl64(v.h1, 27)]
    [] s = 9  -> [v EXCEPT !.h1 = add64(v.h1, v.h2)]
    [] s = 10 -> [v EXCEPT !.h1 = add64(multiply64(v.h1, <<Zero, U32(0, 5)>>),
                                         <<Zero, U32(\H52DC, \HE729)>>)]
    [] s = 11 -> [v EXCEPT !.k2 = multiply64(v.k2, C2_64)]
    [] s = 12 -> [v EXCEPT !.k2 = rotl64(v.k2, 33)]
    [] s = 13 -> [v EXCEPT !.k2 = multiply64(v.k2, C1_64)]
    [] s = 14 -> [v EXCEPT !.h2 = xor64(v.h2, v.k2)]
    [] s = 15 -> [v EXCEPT !.h2 = rotl64(v.h2, 31)]
    [] s = 16 -> [v EXCEPT !.h2 = add64(v.h2, v.h1)]
    [] s = 17 -> [v EXCEPT !.h2 = add64(multiply64(v.h2, <<Zero, U32(0, 5)>>),
                                         <<Zero, U32(\H3849, \H5AB5)>>)]

\* the case list of switch (len & 15), from case 15 down to case 1
compute128x64Switch(s, v) ==
  CASE s = 1  -> [v EXCEPT !.k2 = xor64(v.k2, lshift64(<<Zero, ByteAt(v.bytes, v.tailOffset + 14)>>, 48))]  \* case 15
    [] s = 2  -> [v EXCEPT !.k2 = xor64(v.k2, lshift64(<<Zero, ByteAt(v.bytes, v.tailOffset + 13)>>, 40))]  \* case 14
    [] s = 3  -> [v EXCEPT !.k2 = xor64(v.k2, lshift64(<<Zero, ByteAt(v.bytes, v.tailOffset + 12)>>, 32))]  \* case 13
    [] s = 4  -> [v EXCEPT !.k2 = xor64(v.k2, lshift64(<<Zero, ByteAt(v.bytes, v.tailOffset + 11)>>, 24))]  \* case 12
    [] s = 5  -> [v EXCEPT !.k2 = xor64(v.k2, lshift64(<<Zero, ByteAt(v.bytes, v.tailOffset + 10)>>, 16))]  \* case 11
    [] s = 6  -> [v EXCEPT !.k2 = xor64(v.k2, lshift64(<<Zero, ByteAt(v.bytes, v.tailOffset + 9)>>, 8))]  \* case 10
    [] s = 7  -> [v EXCEPT !.k2 = xor64(v.k2, <<Zero, ByteAt(v.bytes, v.tailOffset + 8)>>)]  \* case 9
    [] s = 8  -> [v EXCEPT !.k2 = multiply64(v.k2, C2_64)]
    [] s = 9  -> [v EXCEPT !.k2 = rotl64(v.k2, 33)]
    [] s = 10 -> [v EXCEPT !.k2 = multiply64(v.k2, C1_64)]
    [] s = 11 -> [v EXCEPT !.h2 = xor64(v.h2, v.k2)]
    [] s = 12 -> [v EXCEPT !.k1 = xor64(v.k1, lshift64(<<Zero, ByteAt(v.bytes, v.tailOffset + 7)>>, 56))]  \* case 8
    [] s = 13 -> [v EXCEPT !.k1 = xor64(v.k1, lshift64(<<Zero, ByteAt(v.bytes, v.tailOffset + 6)>>, 48))]  \* case 7
    [] s = 14 -> [v EXCEPT !.k1 = xor64(v.k1, lshift64(<<Zero, ByteAt(v.bytes, v.tailOffset + 5)>>, 40))]  \* case 6
    [] s = 15 -> [v EXCEPT !.k1 = xor64(v.k1, lshift64(<<Zero, ByteAt(v.bytes, v.tailOffset + 4)>>, 32))]  \* case 5
    [] s = 16 -> [v EXCEPT !.k1 = xor64(v.k1, lshift64(<<Zero, ByteAt(v.bytes, v.tailOffset + 3)>>, 24))]  \* case 4
    [] s = 17 -> [v EXCEPT !.k1 = xor64(v.k1, lshift64(<<Zero, ByteAt(v.bytes, v.tailOffset + 2)>>, 16))]  \* case 3
    [] s = 18 -> [v EXCEPT !.k1 = xor64(v.k1, lshift64(<<Zero, ByteAt(v.bytes, v.tailOffset + 1)>>, 8))]  \* case 2
    [] s = 19 -> [v EXCEPT !.k1 = xor64(v.k1, <<Zero, ByteAt(v.bytes, v.tailOffset)>>)]  \* case 1
    [] s = 20 -> [v EXCEPT !.k1 = multiply64(v.k1, C1_64)]
    [] s = 21 -> [v EXCEPT !.k1 = rotl64(v.k1, 31)]
    [] s = 22 -> [v EXCEPT !.k1 = multiply64(v.k1, C2_64)]
    [] s = 23 -> [v EXCEPT !.h1 = xor64(v.h1, v.k1)]

\* a variant of switchEntry128x64 that enters one statement late: the last
\* tail byte is left out of its partial word
switchEntry128x64Late(rem) ==
  IF rem = 0 THEN 24
  ELSE <<20, 19, 18, 17, 16, 15, 14, 13, 8, 7, 6, 5, 4, 3, 2>>[rem]

\* the statement the switch enters at when len & 15 is rem (past the end for 0)
switchEntry128x64(rem) ==
  IF rem = 0 THEN 24
  ELSE <<19, 18, 17, 16, 15, 14, 13, 12, 7, 6, 5, 4, 3, 2, 1>>[rem]

compute128x64Step(s, v) ==
  CASE s = 1  -> [v EXCEPT !.len = Len(v.bytes)]
    [] s = 2  -> [v EXCEPT !.blocks = v.len \div 16]               \* len >>> 4
    [] s = 3  -> [v EXCEPT !.h1 = <<Zero, v.seed>>]
    [] s = 4  -> [v EXCEPT !.h2 = <<Zero, v.seed>>]
    [] s = 5  -> Run("compute128x64.for", 1, v.blocks * 17, v)
    [] s = 6  -> [v EXCEPT !.tailOffset = v.blocks * 16]
    [] s = 7  -> [v EXCEPT !.k1 = <<Zero, Zero>>]
    [] s = 8  -> [v EXCEPT !.k2 = <<Zero, Zero>>]
    [] s = 9  -> Run("compute128x64.switch", switchEntry128x64(v.len % 16), 23, v)
    [] s = 10 -> [v EXCEPT !.h1 = xor64(v.h1, <<Zero, NumOf(v.len)>>)]
    [] s = 11 -> [v EXCEPT !.h2 = xor64(v.h2, <<Zero, NumOf(v.len)>>)]
    [] s = 12 -> [v EXCEPT !.h1 = add64(v.h1, v.h2)]
    [] s = 13 -> [v EXCEPT !.h2 = add64(v.h2, v.h1)]
    [] s = 14 -> [v EXCEPT !.h1 = fmix64(v.h1)]
    [] s = 15 -> [v EXCEPT !.h2 = fmix64(v.h2)]
    [] s = 16 -> [v EXCEPT !.h1 = add64(v.h1, v.h2)]
    [] s = 17 -> [v EXCEPT !.h2 = add64(v.h2, v.h1)]
    [] s = 18 -> [v EXCEPT !.return =
                    hex8(v.h1[1]) \o hex8(v.h1[2]) \o hex8(v.h2[1]) \o hex8(v.h2[2])]

\* the local variables of compute when it is entered
locals128x64(bytes, seed) ==
  [bytes |-> bytes, seed |-> seed, len |-> 0, blocks |-> 0,
   h1 |-> <<Zero, Zero>>, h2 |-> <<Zero, Zero>>, offset |-> 0,
   k1 |-> <<Zero, Zero>>, k2 |-> <<Zero, Zero>>, tailOffset |-> 0, return |-> ""]

\* the lanes <<h1, h2>> when compute reaches its return statement
lanes128x64(bytes, seed) ==
  The({<<v.h1, v.h2>> : v \in {Run("compute128x64", 1, 17, locals128x64(bytes, seed))}})

compute128x64(bytes, seed) ==
  Run("compute128x64", 1, 18, locals128x64(bytes, seed)).return


\* ---- src/encoding.ts ----------------------------------------------------
\* A JavaScript value is <<type, payload>>: a number (a triple), a string, a
\* bigint (its base-2^16 limbs, least significant first, no leading zero
\* limb), undefined, or a thrown error.
JsNumber(n) == <<"number", n>>
JsString(str) == <<"string", str>>
JsBigInt(b) == <<"bigint", b>>
JsThrow(e) == <<"throw", e>>
Undefined == <<"undefined">>

\* a HashInput: a string or a Uint8Array
Str(str) == [type |-> "string", str |-> str, bytes |-> <<>>]
U8(bytes) == [type |-> "Uint8Array", str |-> "", bytes |-> bytes]

\* the printable ASCII characters by code: 32..33, 35..91, 93..95 and
\* 97..126 (the double quote, the backslash and the grave accent are left out)
Ascii32 == " !"
Ascii35 == "#$%&'()*+,-./0123456789:;<=>?@ABCDEFGHIJKLMNOPQRSTUVWXYZ["
Ascii93 == "]^_"
Ascii97 == "abcdefghijklmnopqrstuvwxyz{|}~"

\* the position of character c in str, 0 when it does not occur
indexIn(str, c) ==
  IF \E i \in 1..Len(str) : SubSeq(str, i, i) = c
  THEN CHOOSE i \in 1..Len(str) : SubSeq(str, i, i) = c
  ELSE 0

charCode(c) ==
  IF indexIn(Ascii97, c) > 0 THEN 96 + indexIn(Ascii97, c)
  ELSE IF indexIn(Ascii35, c) > 0 THEN 34 + indexIn(Ascii35, c)
  ELSE IF indexIn(Ascii93, c) > 0 THEN 92 + indexIn(Ascii93, c)
  ELSE 31 + indexIn(Ascii32, c)

\* TextEncoder.encode on a string of ASCII characters: one byte per character
encode(str) == [i \in 1..Len(str) |-> charCode(SubSeq(str, i, i))]

\* a string given by its UTF-16 code units, for the strings that hold more
\* than ASCII characters
Str16(units) == [type |-> "string16", units |-> units]

IsHighSurrogate(u) == u \in 55296..56319      \* 0xD800 .. 0xDBFF
IsLowSurrogate(u) == u \in 56320..57343       \* 0xDC00 .. 0xDFFF

\* the UTF-8 bytes of a code point
utf8(cp) ==
  IF cp < 128 THEN <<cp>>
  ELSE IF cp < 2048 THEN <<192 + (cp \div 64), 128 + (cp % 64)>>
  ELSE IF cp < 65536
       THEN <<224 + (cp \div 4096), 128 + ((cp \div 64) % 64), 128 + (cp % 64)>>
  ELSE <<240 + (cp \div 262144), 128 + ((cp \div 4096) % 64),
         128 + ((cp \div 64) % 64), 128 + (cp % 64)>>

\* TextEncoder.encode from code unit i on: a high surrogate followed by a low
\* one is one code point, a surrogate on its own is replaced by U+FFFD
RECURSIVE encodeFrom(_, _)
encodeFrom(units, i) ==
  IF i > Len(units) THEN <<>>
  ELSE IF IsHighSurrogate(units[i]) /\ i < Len(units) /\ IsLowSurrogate(units[i + 1])
  THEN utf8(65536 + ((units[i] - 55296) * 1024) + (units[i + 1] - 56320))
         \o encodeFrom(units, i + 2)
  ELSE IF IsHighSurrogate(units[i]) \/ IsLowSurrogate(units[i])
  THEN utf8(65533) \o encodeFrom(units, i + 1)
  ELSE utf8(units[i]) \o encodeFrom(units, i + 1)

\* a variant of toBytes that writes a byte order mark before a string
toBytesWithBOM(input) ==
  IF input.type = "Uint8Array" THEN input.bytes
  ELSE <<239, 187, 191>>
         \o (IF input.type = "string" THEN encode(input.str)
             ELSE encodeFrom(input.units, 1))

toBytes(input) ==
  IF input.type = "Uint8Array" THEN input.bytes
  ELSE IF input.type = "string" THEN encode(input.str)
  ELSE encodeFrom(input.units, 1)

hexValue(c) == (CHOOSE i \in 1..16 : HexDigit[i] = c) - 1

\* acc * 16 + digit on the limbs of a bigint: the top hex digit of each limb
\* moves into the next one
shiftInDigit(limbs, digit) ==
  LET n == Len(limbs)
      carry(k) == IF k = 1 THEN digit ELSE limbs[k - 1] \div 4096
      grown == IF n = 0 THEN digit > 0 ELSE limbs[n] \div 4096 > 0
  IN  [k \in 1..(IF grown THEN n + 1 ELSE n) |->
         (IF k <= n THEN (limbs[k] * 16) % W16 ELSE 0) + carry(k)]

\* BigInt(string) on a hexadecimal literal reads the digits after the prefix
\* from the most significant: statement i takes digit i
BigIntStep(i, v) ==
  [v EXCEPT !.acc = shiftInDigit(v.acc, hexValue(SubSeq(v.digits, i, i)))]

\* a variant of hexToBigInt that reads the first 16 digits only
hexToBigInt64(hex) == Run("BigInt", 1, 16, [digits |-> hex, acc |-> <<>>]).acc

\* BigInt('0x' + hex)
hexToBigInt(hex) == Run("BigInt", 1, Len(hex), [digits |-> hex, acc |-> <<>>]).acc

\* ---- the statements of every body ------------------------------------------
\* a variant of the block loop of hash128 that mixes lane 4 (statements 27 to
\* 33) before lanes 1 to 3 (statements 6 to 26)
Lane4First(s) == IF s <= 5 THEN s ELSE IF s <= 12 THEN s + 21 ELSE s - 7

StepLane4First(f, i, v) ==
  CASE f = "fmix"                 -> fmixStep(i, v)
    [] f = "compute32"            -> compute32Step(i, v)
    [] f = "compute32.for"        -> compute32For((i - 1) \div 8, ((i - 1) % 8) + 1, v)
    [] f = "compute32.switch"     -> compute32Switch(i, v)
    [] f = "compute128"           -> compute128Step(i, v)
    [] f = "compute128.for"       -> compute128For((i - 1) \div 33,
                                                   Lane4First(((i - 1) % 33) + 1), v)
    [] f = "compute128.switch"    -> compute128Switch(i, v)
    [] f = "add64"                -> add64Step(i, v)
    [] f = "multiply64"           -> multiply64Step(i, v)
    [] f = "fmix64"               -> fmix64Step(i, v)
    [] f = "compute128x64"        -> compute128x64Step(i, v)
    [] f = "compute128x64.for"    -> compute128x64For((i - 1) \div 17, ((i - 1) % 17) + 1, v)
    [] f = "compute128x64.switch" -> compute128x64Switch(i, v)
    [] f = "BigInt"               -> BigIntStep(i, v)

Step(f, i, v) ==
  CASE f = "fmix"                 -> fmixStep(i, v)
    [] f = "compute32"            -> compute32Step(i, v)
    [] f = "compute32.for"        -> compute32For((i - 1) \div 8, ((i - 1) % 8) + 1, v)
    [] f = "compute32.switch"     -> compute32Switch(i, v)
    [] f = "compute128"           -> compute128Step(i, v)
    [] f = "compute128.for"       -> compute128For((i - 1) \div 33, ((i - 1) % 33) + 1, v)
    [] f = "compute128.switch"    -> compute128Switch(i, v)
    [] f = "add64"                -> add64Step(i, v)
    [] f = "multiply64"           -> multiply64Step(i, v)
    [] f = "fmix64"               -> fmix64Step(i, v)
    [] f = "compute128x64"        -> compute128x64Step(i, v)
    [] f = "compute128x64.for"    -> compute128x64For((i - 1) \div 17, ((i - 1) % 17) + 1, v)
    [] f = "compute128x64.switch" -> compute128x64Switch(i, v)
    [] f = "BigInt"               -> BigIntStep(i, v)

\* ---- the exported functions ----------------------------------------------
\* Hash128Options: absent fields (and an absent options argument) are undefined
Options(seed, output) == [seed |-> seed, output |-> output]

\* seed = 0 as a default parameter, options?.seed ?? 0
seedOrDefault(seed) == IF seed = Undefined THEN Zero ELSE seed[2]

\* a variant of hash32 that clamps the seed to 0 .. 0xffffffff instead of
\* leaving it to the 32-bit operators
hash32Clamped(input, seed) ==
  JsNumber(compute32(toBytes(input),
                     IF seedOrDefault(seed)[1] > 0 THEN U32(\HFFFF, \HFFFF)
                     ELSE IF seedOrDefault(seed)[1] < 0 THEN Zero
                     ELSE seedOrDefault(seed)))

hash32(input, seed) == JsNumber(compute32(toBytes(input), seedOrDefault(seed)))

hash128(input, options) ==
  The({IF options.output = JsString("bigint")
       THEN JsBigInt(hexToBigInt(hex))
       ELSE JsString(hex) :
       hex \in {compute128(toBytes(input), seedOrDefault(options.seed))}})

\* a variant of hash128x64 that runs the x86 engine
hash128x64ViaX86(input, options) == hash128(input, options)

hash128x64(input, options) ==
  The({IF options.output = JsString("bigint")
       THEN JsBigInt(hexToBigInt(hex))
       ELSE JsString(hex) :
       hex \in {compute128x64(toBytes(input), seedOrDefault(options.seed))}})

\* ---- the stream classes --------------------------------------------------
\* a variant of new Uint8Array(n) that is one byte short
newUint8ArrayShort(n) == [i \in 1..(n - 1) |-> 0]

\* new Uint8Array(n)
newUint8Array(n) == [i \in 1..n |-> 0]

\* for (const chunk of chunks) { result.set(chunk, offset); offset += chunk.length }
\* TypedArray.prototype.set throws a RangeError when the source does not fit
RECURSIVE copyChunks(_, _, _, _)
copyChunks(result, chunks, i, offset) ==
  IF i > Len(chunks) THEN [ok |-> TRUE, bytes |-> result]
  ELSE IF offset + Len(chunks[i]) > Len(result) THEN [ok |-> FALSE, bytes |-> result]
  ELSE copyChunks(SubSeq(result, 1, offset) \o chunks[i]
                    \o SubSeq(result, offset + Len(chunks[i]) + 1, Len(result)),
                  chunks, i + 1, offset + Len(chunks[i]))

\* the buffer digest() hashes
digestBuffer(st) == copyChunks(newUint8Array(st.totalLength), st.chunks, 1, 0)

\* ---- state ---------------------------------------------------------------
VARIABLES
  stream,    \* the caller's stream object (engine "none" before it is created)
  call,      \* the call the caller has made and that has not returned yet
  ret,       \* the last call that returned, with the value it returned
  kept,      \* a returned call the caller has kept to compare later ones with
  fed,       \* the caller's record of its stream: the call that created it,
             \* the inputs passed to update since, in order, and whether it
             \* has called digest
  warned,    \* src/v1-compat.ts: let warned = false
  nodeEnv,   \* process.env.NODE_ENV
  warnings,  \* the number of lines written by console.warn
  other      \* the caller's second stream object and its record of it, while
             \* it operates on the first (stream and fed are those of the
             \* object it operates on)

vars == <<stream, call, ret, kept, fed, warned, nodeEnv, warnings, other>>

Call(op, input, seed, output) ==
  [op |-> op, input |-> input, seed |-> seed, output |-> output]

Idle == Call("idle", Str(""), Undefined, Undefined)

NoStream ==
  [engine |-> "none", chunks |-> <<>>, totalLength |-> 0,
   seed |-> Zero, outputFormat |-> "none"]

Returned(c, value) == [call |-> c, value |-> value]

Init ==
  /\ stream = NoStream
  /\ call = Idle
  /\ ret = Returned(Idle, Undefined)
  /\ kept = Returned(Idle, Undefined)
  /\ fed = [create |-> Idle, inputs |-> <<>>, digested |-> FALSE]
  /\ warned = FALSE
  /\ nodeEnv = "test"
  /\ warnings = 0
  /\ other = [stream |-> NoStream,
              fed |-> [create |-> Idle, inputs |-> <<>>, digested |-> FALSE]]

\* ---- the caller ----------------------------------------------------------
\* the exported one-shot functions and the functions that create a stream
HashOps   == {"hash32", "hash128", "hash128x64"}
CreateOps == {"createHash32", "createHash128", "createHash128x64"}

\* the caller makes call c; it holds one stream at a time and feeds it at
\* most MaxChunks chunks
MaxChunks == 2

CanInvoke(c) ==
  /\ c.op \in CreateOps => stream.engine = "none"
  /\ c.op = "update" => stream.engine # "none" /\ Len(stream.chunks) < MaxChunks
  /\ c.op = "digest" => stream.engine # "none"

Invoke(c) ==
  /\ call.op = "idle"
  /\ CanInvoke(c)
  /\ call' = c
  /\ ret' = Returned(Idle, Undefined)
  /\ fed' = IF c.op \in CreateOps
            THEN [create |-> c, inputs |-> <<>>, digested |-> FALSE]
            ELSE IF c.op = "update"
            THEN [fed EXCEPT !.inputs = Append(@, c.input)]
            ELSE IF c.op = "digest"
            THEN [fed EXCEPT !.digested = TRUE]
            ELSE fed
  /\ UNCHANGED <<stream, kept, other, warned, nodeEnv, warnings>>

\* the caller keeps the result of the call that has just returned
Keep ==
  /\ call.op = "idle"
  /\ ret.call.op # "idle"
  /\ kept.call.op = "idle"
  /\ kept' = ret
  /\ UNCHANGED <<stream, call, ret, fed, warned, nodeEnv, warnings, other>>

\* the caller turns to its other stream object: the calls it makes next are
\* made on that object
SwitchStream ==
  /\ call.op = "idle"
  /\ stream' = other.stream
  /\ fed' = other.fed
  /\ other' = [stream |-> stream, fed |-> fed]
  /\ UNCHANGED <<call, ret, kept, warned, nodeEnv, warnings>>

\* the environment changes NODE_ENV between calls
SetNodeEnv(e) ==
  /\ call.op = "idle"
  /\ nodeEnv # e
  /\ nodeEnv' = e
  /\ UNCHANGED <<stream, call, ret, kept, other, fed, warned, warnings>>

\* ---- the one-shot functions ----------------------------------------------
Return(value) ==
  /\ ret' = Returned(call, value)
  /\ call' = Idle

\* a variant of Hash32 that takes the seed of the caller's hash32 stream when
\* there is one
Hash32StreamSeed ==
  /\ call.op = "hash32"
  /\ Return(hash32(call.input, IF stream.engine = "hash32"
                               THEN JsNumber(stream.seed) ELSE call.seed))
  /\ UNCHANGED <<stream, kept, other, fed, warned, nodeEnv, warnings>>

Hash32 ==
  /\ call.op = "hash32"
  /\ Return(hash32(call.input, call.seed))
  /\ UNCHANGED <<stream, kept, other, fed, warned, nodeEnv, warnings>>

Hash128 ==
  /\ call.op = "hash128"
  /\ Return(hash128(call.input, Options(call.seed, call.output)))
  /\ UNCHANGED <<stream, kept, other, fed, warned, nodeEnv, warnings>>

Hash128x64 ==
  /\ call.op = "hash128x64"
  /\ Return(hash128x64(call.input, Options(call.seed, call.output)))
  /\ UNCHANGED <<stream, kept, other, fed, warned, nodeEnv, warnings>>

\* ---- src/v1-compat.ts ----------------------------------------------------
\* a variant of warnDeprecation without the test of NODE_ENV
warnDeprecationInProduction ==
  IF warned
  THEN UNCHANGED <<warned, warnings>>
  ELSE warned' = TRUE /\ warnings' = warnings + 1

warnDeprecation ==
  IF warned \/ nodeEnv = "production"
  THEN UNCHANGED <<warned, warnings>>
  ELSE warned' = TRUE /\ warnings' = warnings + 1

V3X86Hash32 ==
  /\ call.op = "v3.x86.hash32"
  /\ warnDeprecation
  /\ Return(hash32(call.input, call.seed))
  /\ UNCHANGED <<stream, kept, other, fed, nodeEnv>>

V3X86Hash128 ==
  /\ call.op = "v3.x86.hash128"
  /\ warnDeprecation
  /\ Return(hash128(call.input, Options(call.seed, Undefined)))
  /\ UNCHANGED <<stream, kept, other, fed, nodeEnv>>

\* a variant of v3.x64.hash128 that calls the x86 function
V3X64Hash128ViaX86 ==
  /\ call.op = "v3.x64.hash128"
  /\ warnDeprecation
  /\ Return(hash128(call.input, Options(call.seed, Undefined)))
  /\ UNCHANGED <<stream, kept, other, fed, nodeEnv>>

V3X64Hash128 ==
  /\ call.op = "v3.x64.hash128"
  /\ warnDeprecation
  /\ Return(hash128x64(call.input, Options(call.seed, Undefined)))
  /\ UNCHANGED <<stream, kept, other, fed, nodeEnv>>

\* ---- the streams ---------------------------------------------------------
\* a variant of new Hash32Stream(seed) in which the chunks and the total
\* length are those of the caller's other stream object
CreateHash32SharedChunks ==
  /\ call.op = "createHash32"
  /\ stream' = [engine |-> "hash32", chunks |-> other.stream.chunks,
                totalLength |-> other.stream.totalLength,
                seed |-> seedOrDefault(call.seed), outputFormat |-> "none"]
  /\ Return(<<"stream", "hash32">>)
  /\ UNCHANGED <<kept, other, fed, warned, nodeEnv, warnings>>

\* new Hash32Stream(seed)
CreateHash32 ==
  /\ call.op = "createHash32"
  /\ stream' = [engine |-> "hash32", chunks |-> <<>>, totalLength |-> 0,
                seed |-> seedOrDefault(call.seed), outputFormat |-> "none"]
  /\ Return(<<"stream", "hash32">>)
  /\ UNCHANGED <<kept, other, fed, warned, nodeEnv, warnings>>

\* options?.output ?? 'hex'
outputOrDefault(output) == IF output = Undefined THEN "hex" ELSE output[2]

\* new Hash128Stream(options)
CreateHash128 ==
  /\ call.op = "createHash128"
  /\ stream' = [engine |-> "hash128", chunks |-> <<>>, totalLength |-> 0,
                seed |-> seedOrDefault(call.seed),
                outputFormat |-> outputOrDefault(call.output)]
  /\ Return(<<"stream", "hash128">>)
  /\ UNCHANGED <<kept, other, fed, warned, nodeEnv, warnings>>

\* new Hash128x64Stream(options)
CreateHash128x64 ==
  /\ call.op = "createHash128x64"
  /\ stream' = [engine |-> "hash128x64", chunks |-> <<>>, totalLength |-> 0,
                seed |-> seedOrDefault(call.seed),
                outputFormat |-> outputOrDefault(call.output)]
  /\ Return(<<"stream", "hash128x64">>)
  /\ UNCHANGED <<kept, other, fed, warned, nodeEnv, warnings>>

\* a variant of update that puts the chunk first: chunks.unshift(bytes)
updateFirst(st, input) ==
  [st EXCEPT !.chunks = <<toBytes(input)>> \o @,
             !.totalLength = @ + Len(toBytes(input))]

\* a variant of update that does not count the bytes: chunks.push(bytes)
updateUncounted(st, input) ==
  [st EXCEPT !.chunks = Append(@, toBytes(input))]

\* update(input): chunks.push(bytes); totalLength += bytes.length; return this
update(st, input) ==
  [st EXCEPT !.chunks = Append(@, toBytes(input)),
             !.totalLength = @ + Len(toBytes(input))]

\* toBytes returns the caller's Uint8Array itself and update pushes it: the
\* chunk is the caller's array, so a byte the caller writes into the array it
\* passed as chunk k is written in the stream's chunk k (the caller passes a
\* different array to every update)
WriteByte(k, i, b) ==
  /\ call.op = "idle"
  /\ k \in 1..Len(stream.chunks)
  /\ fed.inputs[k].type = "Uint8Array"
  /\ i \in 1..Len(stream.chunks[k])
  /\ stream.chunks[k][i] # b
  /\ stream' = [stream EXCEPT !.chunks[k][i] = b]
  /\ UNCHANGED <<call, ret, kept, other, fed, warned, nodeEnv, warnings>>

Update32 ==
  /\ call.op = "update" /\ stream.engine = "hash32"
  /\ stream' = update(stream, call.input)
  /\ Return(<<"stream", "hash32">>)
  /\ UNCHANGED <<kept, other, fed, warned, nodeEnv, warnings>>

Update128 ==
  /\ call.op = "update" /\ stream.engine = "hash128"
  /\ stream' = update(stream, call.input)
  /\ Return(<<"stream", "hash128">>)
  /\ UNCHANGED <<kept, other, fed, warned, nodeEnv, warnings>>

Update128x64 ==
  /\ call.op = "update" /\ stream.engine = "hash128x64"
  /\ stream' = update(stream, call.input)
  /\ Return(<<"stream", "hash128x64">>)
  /\ UNCHANGED <<kept, other, fed, warned, nodeEnv, warnings>>

\* Hash32Stream.digest()
digest32(st) ==
  The({IF result.ok THEN JsNumber(compute32(result.bytes, st.seed))
       ELSE JsThrow("RangeError") :
       result \in {digestBuffer(st)}})

\* Hash128Stream.digest()
digest128(st) ==
  The({IF ~result.ok THEN JsThrow("RangeError")
       ELSE The({IF st.outputFormat = "bigint" THEN JsBigInt(hexToBigInt(hex))
                 ELSE JsString(hex) :
                 hex \in {compute128(result.bytes, st.seed)}}) :
       result \in {digestBuffer(st)}})

\* Hash128x64Stream.digest()
digest128x64(st) ==
  The({IF ~result.ok THEN JsThrow("RangeError")
       ELSE The({IF st.outputFormat = "bigint" THEN JsBigInt(hexToBigInt(hex))
                 ELSE JsString(hex) :
                 hex \in {compute128x64(result.bytes, st.seed)}}) :
       result \in {digestBuffer(st)}})

\* a variant of Hash32Stream.digest that empties the buffer
Digest32Reset ==
  /\ call.op = "digest" /\ stream.engine = "hash32"
  /\ Return(digest32(stream))
  /\ stream' = [stream EXCEPT !.chunks = <<>>, !.totalLength = 0]
  /\ UNCHANGED <<kept, other, fed, warned, nodeEnv, warnings>>

Digest32 ==
  /\ call.op = "digest" /\ stream.engine = "hash32"
  /\ Return(digest32(stream))
  /\ UNCHANGED <<stream, kept, other, fed, warned, nodeEnv, warnings>>

\* a variant of Hash128Stream.digest that empties the buffer
Digest128Reset ==
  /\ call.op = "digest" /\ stream.engine = "hash128"
  /\ Return(digest128(stream))
  /\ stream' = [stream EXCEPT !.chunks = <<>>, !.totalLength = 0]
  /\ UNCHANGED <<kept, other, fed, warned, nodeEnv, warnings>>

Digest128 ==
  /\ call.op = "digest" /\ stream.engine = "hash128"
  /\ Return(digest128(stream))
  /\ UNCHANGED <<stream, kept, other, fed, warned, nodeEnv, warnings>>

Digest128x64 ==
  /\ call.op = "digest" /\ stream.engine = "hash128x64"
  /\ Return(digest128x64(stream))
  /\ UNCHANGED <<stream, kept, other, fed, warned, nodeEnv, warnings>>

\* ---- the reference test vectors ------------------------------------------
Vector(input, seed, h32, h128, h128x64) ==
  [input |-> Str(input), seed |-> seed, hash32 |-> JsNumber(h32),
   hash128 |-> JsString(h128), hash128x64 |-> JsString(h128x64)]

\* the number written a * 10^5 + b in decimal
Decimal(a, b) == Add(Times(NumOf(a), NumOf(100000)), NumOf(b))

\* const testVectors of the three test files, one row per input and seed
testVectors == <<
  Vector("I will not buy this record, it is scratched.", Undefined,
         Decimal(28322, 14938), "a0a9683b25ac5e40d9af2895890dddf5",
         "c382657f9a06c49d4a71fdc6d9b0d48f"),
  Vector("", Undefined,
         Decimal(0, 0), "00000000000000000000000000000000",
         "00000000000000000000000000000000"),
  Vector("0", Undefined,
         Decimal(35306, 70207), "0ab2409ea5eb34f8a5eb34f8a5eb34f8",
         "2ac9debed546a3803a8de9e53c875e09"),
  Vector("01", Undefined,
         Decimal(16428, 82560), "0f87acb4674f3b21674f3b21674f3b21",
         "649e4eaa7fc1708ee6945110230f2ad6"),
  Vector("012", Undefined,
         Decimal(39665, 66284), "cd94fea54c13d78e4c13d78e4c13d78e",
         "ce68f60d7c353bdb00364cd5936bf18a"),
  Vector("0123", Undefined,
         Decimal(35584, 46240), "dc378fea485d3536485d3536485d3536",
         "0f95757ce7f38254b4c67c9e6f12ab4b"),
  Vector("01234", Undefined,
         Decimal(4330, 70448), "35c5b3ee7b3b211600ae108800ae1088",
         "0f04e459497f3fc1eccc6223a28dd613"),
  Vector("0123456", Undefined,
         Decimal(1834, 47976), "b708d0a186d15c02495d053b495d053b",
         "13eb9fb82606f7a6b4ebef492fdef34e"),
  Vector("01234567", Undefined,
         Decimal(14514, 31763), "aa22bf849216040263b83c5e63b83c5e",
         "8236039b7387354dc3369387d8964920"),
  Vector("012345678", Undefined,
         Decimal(13506, 87357), "571b5f6775d48126d0205c304ca675dc",
         "4c1e87519fe738ba72a17af899d597f1"),
  Vector("0123456789", Undefined,
         Decimal(18912, 13601), "0017a61e2e528b33a5443f2057a11235",
         "3f9652ac3effeb248027a17cf2990b07"),
  Vector("0123456789a", Undefined,
         Decimal(35649, 7726), "38a2ed0f921f15e42caa7f97a971884f",
         "4bc3eacd29d386297cb2d9e797da9c92"),
  Vector("0123456789ab", Undefined,
         Decimal(20441, 49191), "cfaa93f9b6982a7e53412b5d04d3d08f",
         "66352b8cee9e3ca7a9edf0b381a8fc58"),
  Vector("0123456789abc", Undefined,
         Decimal(41935, 46897), "c970af1dcc6d9d01dd00c683fc11eee3",
         "5eb2f8db4265931e801ce853e61d0ab7"),
  Vector("0123456789abcd", Undefined,
         Decimal(4398, 90777), "6f34d20ac0a5114dae0d83c563f51794",
         "07a4a014dd59f71aaaf437854cd22231"),
  Vector("0123456789abcde", Undefined,
         Decimal(22505, 27230), "3c76c46d4d0818c0add433daa78673fa",
         "a62dd5f6c0bf23514fccf50c7c544cf0"),
  Vector("0123456789abcdef", Undefined,
         Decimal(9190, 68895), "fb7d440936aed30a48ad1d9b572b3bfd",
         "4be06d94cf4ad1a787c35b5c63a708da"),
  Vector("", JsNumber(NumOf(1)),
         Decimal(13640, 76727), "88c4adec54d201b954d201b954d201b9",
         "4610abe56eff5cb551622daa78f83583") >>

\* ---- the calls the caller makes ------------------------------------------
\* the output option: omitted, 'hex' or 'bigint'
Outputs == {Undefined, JsString("hex"), JsString("bigint")}

\* the calls of the one-shot functions on the given inputs and seeds; hash32
\* takes no output option
HashCalls(inputs, seeds, outputs) ==
  {Call("hash32", i, s, Undefined) : i \in inputs, s \in seeds}
    \cup {Call(op, i, s, o) : op \in {"hash128", "hash128x64"},
                              i \in inputs, s \in seeds, o \in outputs}

CreateCalls(seeds, outputs) ==
  {Call("createHash32", Str(""), s, Undefined) : s \in seeds}
    \cup {Call(op, Str(""), s, o) : op \in {"createHash128", "createHash128x64"},
                                   s \in seeds, o \in outputs}

UpdateCalls(chunks) == {Call("update", c, Undefined, Undefined) : c \in chunks}

DigestCall == Call("digest", Str(""), Undefined, Undefined)

\* streaming and one-shot calls: chunks that are empty, shorter than a block,
\* and that end inside and on block boundaries when concatenated
Chunks ==
  {U8(<<>>), Str("01234"), Str("56789"),
   U8(<<0, 255, 128, 1, 200, 7, 64, 250, 99, 16, 177>>)}

Seeds == {Undefined, JsNumber(U32(\HFFFF, \HFFFF))}

\* the first n of 17 bytes, for every length from none to a block and a byte
Bytes17 == <<1, 2, 3, 4, 5, 6, 7, 8, 9, 10, 11, 12, 13, 14, 15, 16, 255>>

Inputs ==
  {Str(""), Str("0123456789"), Str("test")}
    \cup {U8(SubSeq(Bytes17, 1, n)) : n \in 0..17}

Next ==
  \/ \E c \in HashCalls(Inputs, Seeds, Outputs) :
       stream.engine = "none" /\ Invoke(c)
  \/ \E c \in CreateCalls(Seeds, Outputs) \cup UpdateCalls(Chunks) \cup {DigestCall} :
       Invoke(c)
  \/ Hash32 \/ Hash128 \/ Hash128x64
  \/ CreateHash32 \/ CreateHash128 \/ CreateHash128x64
  \/ Update32 \/ Update128 \/ Update128x64
  \/ Digest32 \/ Digest128 \/ Digest128x64

Spec == Init /\ [][Next]_vars

\* streams fed strings: ASCII, two- and three-byte characters, a surrogate
\* pair, and each half of the pair as a string of its own
StringChunks ==
  {Str("hello"), Str(" world"),
   Str16(<<233, 8364, 55357, 56832>>),       \* U+00E9, U+20AC, U+1F600
   Str16(<<55357>>), Str16(<<56832>>)}       \* 0xD83D, 0xDE00

NextStrings ==
  \/ \E c \in CreateCalls({Undefined}, {Undefined}) \cup UpdateCalls(StringChunks)
                \cup {DigestCall} : Invoke(c)
  \/ CreateHash32 \/ CreateHash128 \/ CreateHash128x64
  \/ Update32 \/ Update128 \/ Update128x64
  \/ Digest32 \/ Digest128 \/ Digest128x64

SpecStrings == Init /\ [][NextStrings]_vars

\* streams fed arrays the caller writes into afterwards
AliasChunks == {U8(<<1, 2>>), U8(<<>>), Str("ab")}

NextAlias ==
  \/ \E c \in CreateCalls({Undefined}, {Undefined}) \cup UpdateCalls(AliasChunks)
                \cup {DigestCall} : Invoke(c)
  \/ \E k \in 1..MaxChunks, i \in 1..2, b \in {0, 255} : WriteByte(k, i, b)
  \/ CreateHash32 \/ CreateHash128 \/ CreateHash128x64
  \/ Update32 \/ Update128 \/ Update128x64
  \/ Digest32 \/ Digest128 \/ Digest128x64

SpecAlias == Init /\ [][NextAlias]_vars

\* two stream objects and one-shot calls, interleaved
TwoStreamChunks == {U8(<<0, 255, 128, 1, 200, 7, 64, 250, 99, 16, 177>>)}

NextTwoStreams ==
  \/ \E c \in HashCalls({Str("test")}, {Undefined}, {Undefined})
                \cup CreateCalls({Undefined}, {Undefined})
                \cup UpdateCalls(TwoStreamChunks) \cup {DigestCall} : Invoke(c)
  \/ SwitchStream
  \/ Hash32 \/ Hash128 \/ Hash128x64
  \/ CreateHash32 \/ CreateHash128 \/ CreateHash128x64
  \/ Update32 \/ Update128 \/ Update128x64
  \/ Digest32 \/ Digest128 \/ Digest128x64

SpecTwoStreams == Init /\ [][NextTwoStreams]_vars

\* the rows of the reference table through the functions and through v3
VectorCalls ==
  {Call(op, testVectors[r].input, testVectors[r].seed, Undefined) :
     op \in HashOps \cup {"v3.x86.hash32", "v3.x86.hash128", "v3.x64.hash128"},
     r \in DOMAIN testVectors}

NextVectors ==
  \/ \E c \in VectorCalls : Invoke(c)
  \/ \E e \in {"test", "production"} : SetNodeEnv(e)
  \/ Hash32 \/ Hash128 \/ Hash128x64
  \/ V3X86Hash32 \/ V3X86Hash128 \/ V3X64Hash128

SpecVectors == Init /\ [][NextVectors]_vars

\* one input under several seeds, the caller keeping one result
SeedInputs ==
  {Str(""), Str("test"),
   U8(<<1, 2, 3, 4, 5, 6, 7, 8, 9, 10, 11, 12, 13, 14, 15, 16, 255>>)}

SeedPool ==
  {Undefined, JsNumber(Zero), JsNumber(U32(0, 1)),
   JsNumber(U32(\H8000, 0)), JsNumber(U32(\HFFFF, \HFFFF)),
   JsNumber(Num(-1, \HFFFF, \HFFFF)),          \* -1
   JsNumber(Num(2 ^ 19, 0, 1)),                \* 2^51 + 1
   JsNumber(Num(-(2 ^ 19), \H8000, 0))}        \* -2^51 + 2^31

NextSeeds ==
  \/ \E c \in HashCalls(SeedInputs, SeedPool, {Undefined}) : Invoke(c)
  \/ Keep
  \/ Hash32 \/ Hash128 \/ Hash128x64

SpecSeeds == Init /\ [][NextSeeds]_vars

\* the same call repeated with other calls in between: the caller keeps a
\* result it got before any stream or v3 call was made
RepeatCalls ==
  HashCalls({Str("test")}, {Undefined}, {Undefined})
    \cup {Call(op, Str("test"), Undefined, Undefined) :
            op \in {"v3.x86.hash32", "v3.x86.hash128", "v3.x64.hash128"}}
    \cup CreateCalls({JsNumber(U32(0, 1))}, {Undefined})
    \cup UpdateCalls({Str("test")}) \cup {DigestCall}

NextRepeat ==
  \/ \E c \in RepeatCalls : Invoke(c)
  \/ stream.engine = "none" /\ ~warned /\ Keep
  \/ Hash32 \/ Hash128 \/ Hash128x64
  \/ V3X86Hash32 \/ V3X86Hash128 \/ V3X64Hash128
  \/ CreateHash32 \/ CreateHash128 \/ CreateHash128x64
  \/ Update32 \/ Update128 \/ Update128x64
  \/ Digest32 \/ Digest128 \/ Digest128x64

SpecRepeat == Init /\ [][NextRepeat]_vars

\* a stream is created and fed; the caller keeps what one digest() returned
\* and from then on only calls digest()
NextDigests ==
  \/ \E c \in CreateCalls(Seeds, Outputs) \cup UpdateCalls(Chunks) :
       kept.call.op = "idle" /\ Invoke(c)
  \/ Invoke(DigestCall)
  \/ ret.call.op = "digest" /\ Keep
  \/ CreateHash32 \/ CreateHash128 \/ CreateHash128x64
  \/ Update32 \/ Update128 \/ Update128x64
  \/ Digest32 \/ Digest128 \/ Digest128x64

SpecDigests == Init /\ [][NextDigests]_vars

\* inputs of no byte to nine bytes under every seed of the pool
ShortInputs == {U8(SubSeq(Bytes17, 1, n)) : n \in 0..9}

NextShort ==
  \/ \E c \in HashCalls(ShortInputs, SeedPool, {Undefined}) : Invoke(c)
  \/ Hash32 \/ Hash128 \/ Hash128x64

SpecShort == Init /\ [][NextShort]_vars

\* hash32 and hash128 on inputs of up to two blocks of hash128 and a byte,
\* under seeds at the ends of 0 .. 2^32 - 1
Bytes33 == [i \in 1..33 |-> (251 * i) % 256]

DeferredCalls ==
  {Call(op, U8(SubSeq(Bytes33, 1, n)), seed, Undefined) :
     op \in {"hash32", "hash128"},
     n \in {0, 3, 4, 15, 16, 17, 32, 33},
     seed \in {Undefined, JsNumber(U32(0, 1)), JsNumber(U32(\H8000, 0)),
               JsNumber(U32(\HFFFF, \HFFFF))}}

NextDeferred ==
  \/ \E c \in DeferredCalls : Invoke(c)
  \/ Hash32 \/ Hash128

SpecDeferred == Init /\ [][NextDeferred]_vars

\* ---- the helper functions on their own -----------------------------------
\* an engine calls a helper on operands: the call's input is the operands
HelperCall(op, args) == Call(op, args, Undefined, Undefined)

\* the state in which one of the helper calls has been made and nothing else
\* has happened
InitHelper(calls) ==
  /\ call \in calls
  /\ stream = NoStream
  /\ ret = Returned(Idle, Undefined)
  /\ kept = Returned(Idle, Undefined)
  /\ fed = [create |-> Idle, inputs |-> <<>>, digested |-> FALSE]
  /\ warned = FALSE
  /\ nodeEnv = "test"
  /\ warnings = 0
  /\ other = [stream |-> NoStream,
              fed |-> [create |-> Idle, inputs |-> <<>>, digested |-> FALSE]]

Multiply ==
  /\ call.op = "multiply"
  /\ Return(multiply(call.input[1], call.input[2]))
  /\ UNCHANGED <<stream, kept, other, fed, warned, nodeEnv, warnings>>

\* 16-bit limbs at the edges of the carries and of the sign, and one of C1
Limbs == {0, 1, \H7FFF, \H8000, \HFFFF, \HCC9E}

\* the first operand of multiply: int32, uint32 and sums that were not
\* truncated, from -2^34 to 2^34 - 1
MultiplyA == {Num(t, h, l) : t \in {-4, -1, 0, 1, 3}, h \in Limbs, l \in Limbs}

\* the second operand of multiply: a constant in 0 .. 2^32 - 1
MultiplyB == {U32(h, l) : h \in Limbs, l \in Limbs}

MultiplyCalls ==
  {HelperCall("multiply", <<a, b>>) : a \in MultiplyA, b \in MultiplyB}

SpecMultiply == InitHelper(MultiplyCalls) /\ [][Multiply]_vars

Multiply64 ==
  /\ call.op = "multiply64"
  /\ Return(multiply64(call.input[1], call.input[2]))
  /\ UNCHANGED <<stream, kept, other, fed, warned, nodeEnv, warnings>>

\* 32-bit words, unsigned and signed, at the edges of the carries and of the
\* sign, and one of C1
Words32 ==
  {Zero, U32(0, 1), U32(0, \HFFFF), U32(\H8000, 0), U32(\HFFFF, \HFFFF),
   Num(-1, \HFFFF, \HFFFF), Num(-1, \H8000, 1), U32(\H87C3, \H7B91)}

Pairs64 == {<<hi, lo>> : hi \in Words32, lo \in Words32}

Multiply64Calls == {HelperCall("multiply64", <<a, b>>) : a \in Pairs64, b \in Pairs64}

SpecMultiply64 == InitHelper(Multiply64Calls) /\ [][Multiply64]_vars

Rotl64 ==
  /\ call.op = "rotl64"
  /\ Return(rotl64(call.input[1], call.input[2]))
  /\ UNCHANGED <<stream, kept, other, fed, warned, nodeEnv, warnings>>

\* rotation counts: those of the engine (27, 31, 33), the edges of the three
\* branches, and counts of 64 and more
Rotations == {0, 1, 15, 16, 27, 31, 32, 33, 48, 63, 64, 65, 96, 127, 128}

Rotl64Calls == {HelperCall("rotl64", <<m, n>>) : m \in Pairs64, n \in Rotations}

SpecRotl64 == InitHelper(Rotl64Calls) /\ [][Rotl64]_vars

\* ---- the properties -------------------------------------------------------
\* the one-shot function of an engine, named by the function or by the
\* function that creates the engine's stream
OneShot(op, input, seed, output) ==
  CASE op \in {"hash32", "createHash32"} -> hash32(input, seed)
    [] op \in {"hash128", "createHash128"} -> hash128(input, Options(seed, output))
    [] op \in {"hash128x64", "createHash128x64"} -> hash128x64(input, Options(seed, output))

\* c1 ++ ... ++ cn: the bytes of the inputs the caller has passed to update
RECURSIVE Concatenation(_)
Concatenation(inputs) ==
  IF inputs = <<>> THEN <<>>
  ELSE toBytes(Head(inputs)) \o Concatenation(Tail(inputs))

\* C1: when digest() returns, its value is the value the one-shot function of
\* the same engine returns for the concatenation of the chunks passed to
\* update since the stream was created, with the seed (and output option) the
\* stream was created with.
StreamingEqualsOneShot ==
  ret.call.op = "digest" =>
    ret.value = OneShot(fed.create.op, U8(Concatenation(fed.inputs)),
                        fed.create.seed, fed.create.output)

\* two chunks that end inside a block, streamed through hash128x64, give the
\* reference digest of their concatenation '0123456789'
StreamedTwoChunks ==
  /\ ret.call.op = "digest"
  /\ fed.create = Call("createHash128x64", Str(""), Undefined, Undefined)
  /\ fed.inputs = <<Str("01234"), Str("56789")>>
  /\ ret.value = JsString("3f9652ac3effeb248027a17cf2990b07")

Row(c) ==
  CHOOSE r \in DOMAIN testVectors :
    testVectors[r].input = c.input /\ testVectors[r].seed = c.seed

\* C3: hash32, called directly or through v3.x86.hash32 on a row of the
\* reference table, returns the unsigned integer the row lists.
Hash32ReferenceVectors ==
  ret.call.op \in {"hash32", "v3.x86.hash32"} =>
    ret.value = testVectors[Row(ret.call)].hash32

\* hash32('0123456789abcdef') has returned 919068895
Hash32SixteenBytes ==
  /\ ret.call = Call("hash32", Str("0123456789abcdef"), Undefined, Undefined)
  /\ ret.value = JsNumber(Decimal(9190, 68895))

\* C4: hash128, called directly or through v3.x86.hash128 on a row of the
\* reference table, returns the 32-character string the row lists.
Hash128ReferenceVectors ==
  ret.call.op \in {"hash128", "v3.x86.hash128"} =>
    ret.value = testVectors[Row(ret.call)].hash128

\* hash128 of the 44-character sentence has returned its reference digest
Hash128Sentence ==
  /\ ret.call.op = "hash128"
  /\ ret.call.input = Str("I will not buy this record, it is scratched.")
  /\ ret.value = JsString("a0a9683b25ac5e40d9af2895890dddf5")

\* C5: hash128x64, called directly or through v3.x64.hash128 on a row of the
\* reference table, returns the 32-character string the row lists.
Hash128x64ReferenceVectors ==
  ret.call.op \in {"hash128x64", "v3.x64.hash128"} =>
    ret.value = testVectors[Row(ret.call)].hash128x64

\* hash128x64('', {seed: 1}) has returned its reference digest
Hash128x64SeedOne ==
  /\ ret.call = Call("hash128x64", Str(""), JsNumber(NumOf(1)), Undefined)
  /\ ret.value = JsString("4610abe56eff5cb551622daa78f83583")

\* C6: the value hash32 and the digest of a hash32 stream return is a number
\* in 0 .. 2^32 - 1.
Hash32Unsigned ==
  (ret.call.op = "hash32" \/ (ret.call.op = "digest" /\ stream.engine = "hash32")) =>
    ret.value[1] = "number" /\ IsUint32(ret.value[2])

\* a hash32 stream has returned a value with its top bit set: the accumulator
\* was a negative 32-bit value before the conversion
Hash32TopBitSet ==
  /\ ret.call.op = "digest"
  /\ stream.engine = "hash32"
  /\ Len(fed.inputs) > 0
  /\ ret.value[1] = "number"
  /\ ret.value[2][2] >= 32768

\* hexadecimal digit i (1 the most significant, 8 the least) of the low 32
\* bits of a number
Nibble(x, i) ==
  ((IF i <= 4 THEN x[2] ELSE x[3]) \div (16 ^ (3 - ((i - 1) % 4)))) % 16

\* the four 32-bit words of the accumulators in lane order, before the
\* conversion to hex
Words(op, input, seed) ==
  IF op = "hash128"
  THEN lanes128(toBytes(input), seedOrDefault(seed))
  ELSE LET h == lanes128x64(toBytes(input), seedOrDefault(seed))
       IN  <<h[1][1], h[1][2], h[2][1], h[2][2]>>

\* str is 32 characters of 0-9a-f, the words in order, 8 digits each
IsPaddedHex(str, words) ==
  /\ Len(str) = 32
  /\ \A p \in 1..32 : \E d \in 1..16 : SubSeq(str, p, p) = HexDigit[d]
  /\ \A k \in 1..4 : \A i \in 1..8 :
       SubSeq(str, (8 * (k - 1)) + i, (8 * (k - 1)) + i)
         = HexDigit[Nibble(words[k], i) + 1]

\* C7: the hex output of hash128 and of hash128x64 is 32 characters of
\* 0-9a-f: the four words in lane order, each as exactly 8 digits.
HexOutputIsPadded ==
  (ret.call.op \in {"hash128", "hash128x64"} /\ ret.call.output # JsString("bigint")) =>
    /\ ret.value[1] = "string"
    /\ IsPaddedHex(ret.value[2], Words(ret.call.op, ret.call.input, ret.call.seed))

\* hash128('0123456789') has returned a digest whose first word has leading
\* zeros and whose third word has its top bit set
HexWordWithLeadingZeros ==
  /\ ret.call = Call("hash128", Str("0123456789"), Undefined, Undefined)
  /\ ret.value = JsString("0017a61e2e528b33a5443f2057a11235")

\* hexadecimal digit of weight 16^w of a bigint
BigNibble(limbs, w) ==
  IF (w \div 4) + 1 > Len(limbs) THEN 0
  ELSE (limbs[(w \div 4) + 1] \div (16 ^ (w % 4))) % 16

\* the bigint is the unsigned integer whose base-16 digits are those of hex
IsBase16Value(limbs, hex) ==
  /\ \A k \in 1..Len(limbs) : limbs[k] \in 0..65535
  /\ Len(limbs) > 0 => limbs[Len(limbs)] # 0
  /\ 4 * Len(limbs) <= Len(hex) + 3
  /\ \A p \in 1..Len(hex) :
       BigNibble(limbs, Len(hex) - p) = hexValue(SubSeq(hex, p, p))

\* the value of a 128-bit result for the output option, given the hex string
\* the same input and seed produce with output 'hex'
IsOutputOf(value, output, hex) ==
  /\ output = JsString("bigint") =>
       value[1] = "bigint" /\ IsBase16Value(value[2], hex[2])
  /\ output = Undefined => value = hex

\* C8: a 128-bit engine's result with output 'bigint' is the unsigned integer
\* the hex string for the same input and seed denotes in base 16, and with
\* output omitted it is that hex string, for the functions and for digest().
BigIntIsParsedHex ==
  /\ ret.call.op \in {"hash128", "hash128x64"} =>
       IsOutputOf(ret.value, ret.call.output,
                  OneShot(ret.call.op, ret.call.input, ret.call.seed, JsString("hex")))
  /\ (ret.call.op = "digest" /\ stream.engine \in {"hash128", "hash128x64"}) =>
       IsOutputOf(ret.value, fed.create.output,
                  OneShot(fed.create.op, U8(Concatenation(fed.inputs)),
                          fed.create.seed, JsString("hex")))

\* a stream created with output 'bigint' and fed has returned a bigint that
\* needs all eight 16-bit limbs
StreamedBigInt ==
  /\ ret.call.op = "digest"
  /\ fed.create.output = JsString("bigint")
  /\ Len(fed.inputs) > 0
  /\ ret.value[1] = "bigint"
  /\ Len(ret.value[2]) = 8

\* the digest of the other 128-bit engine for the same input and seed
OtherVariant(c) ==
  IF c.op = "hash128"
  THEN hash128x64(c.input, Options(c.seed, c.output))
  ELSE hash128(c.input, Options(c.seed, c.output))

\* C9 as stated: hash128 and hash128x64 return different digests for the
\* same input and the same seed.
VariantsDiffer ==
  ret.call.op \in {"hash128", "hash128x64"} => ret.value # OtherVariant(ret.call)

AllZeros == JsString("00000000000000000000000000000000")

\* C9 amended: on the rows of the reference table hash128 and hash128x64
\* return different digests, except on the empty input with seed 0, where
\* both return 32 zeros.
VariantsDifferOnVectors ==
  ret.call.op \in {"hash128", "hash128x64"} =>
    IF ret.call.input = Str("") /\ seedOrDefault(ret.call.seed) = Zero
    THEN ret.value = AllZeros /\ OtherVariant(ret.call) = AllZeros
    ELSE ret.value # OtherVariant(ret.call)

\* hash128('0123456789abcdef') has returned, and hash128x64 gives another
\* digest for it
VariantsDifferOnSixteenBytes ==
  /\ ret.call = Call("hash128", Str("0123456789abcdef"), Undefined, Undefined)
  /\ ret.value = JsString("fb7d440936aed30a48ad1d9b572b3bfd")
  /\ OtherVariant(ret.call) = JsString("4be06d94cf4ad1a787c35b5c63a708da")

\* the seed modulo 2^32, as its two 16-bit halves
SeedMod32(seed) == <<seedOrDefault(seed)[2], seedOrDefault(seed)[3]>>

\* C10: two calls of the same engine on the same input with seeds that differ
\* modulo 2^32 return different digests.
SeedsGiveDifferentDigests ==
  ( /\ kept.call.op \in HashOps
    /\ ret.call.op = kept.call.op
    /\ ret.call.input = kept.call.input
    /\ SeedMod32(ret.call.seed) # SeedMod32(kept.call.seed) )
  => ret.value # kept.value

\* hash32 of the empty input has returned under the default seed and under
\* the seed 0x80000000
TwoSeedsEmptyInput ==
  /\ kept.call = Call("hash32", Str(""), Undefined, Undefined)
  /\ ret.call = Call("hash32", Str(""), JsNumber(U32(\H8000, 0)), Undefined)
  /\ ret.value # kept.value

\* the seed reduced modulo 2^32
TruncatedSeed(seed) == JsNumber(U32(SeedMod32(seed)[1], SeedMod32(seed)[2]))

\* C11: a one-shot call with an integer seed outside 0 .. 2^32 - 1 raises no
\* error and returns the digest of the same input under the seed modulo 2^32.
SeedsAreTruncated ==
  (ret.call.op \in HashOps /\ ret.call.seed # Undefined) =>
    /\ ret.value[1] # "throw"
    /\ ret.value = OneShot(ret.call.op, ret.call.input,
                           TruncatedSeed(ret.call.seed), ret.call.output)

\* hash128 of a block and one tail byte under the seed -1 has returned the
\* digest of the seed 0xffffffff
NegativeSeedTruncated ==
  /\ ret.call.op = "hash128"
  /\ Len(ret.call.input.bytes) = 17
  /\ ret.call.seed = JsNumber(Num(-1, \HFFFF, \HFFFF))
  /\ ret.value = JsString("85548f275a221ba50be0af4ea2bfa6ab")

\* the type of the value a call returns by its signature: a number from
\* hash32, a string or (with output 'bigint') a bigint from the 128-bit
\* engines, the stream from the functions that create one and from update
ResultType(op, output) ==
  CASE op \in {"hash32", "createHash32.digest"} -> "number"
    [] op \in {"hash128", "hash128x64", "createHash128.digest",
               "createHash128x64.digest"} ->
         IF output = JsString("bigint") THEN "bigint" ELSE "string"
    [] op \in CreateOps \cup {"update"} -> "stream"

\* C12: every call that has returned (one-shot, create, update, digest)
\* returned a value of the type its signature declares, never an error,
\* whatever the length of the input, the seed and the output option.
EveryCallReturns ==
  /\ ret.call.op \in HashOps \cup CreateOps \cup {"update"} =>
       ret.value[1] = ResultType(ret.call.op, ret.call.output)
  /\ ret.call.op = "digest" =>
       ret.value[1] = ResultType(fed.create.op \o ".digest", fed.create.output)

\* digest() has returned a string for a stream holding two chunks of 11
\* bytes: a block and a tail of 6
DigestOfTwentyTwoBytes ==
  /\ ret.call.op = "digest"
  /\ stream.totalLength = 22
  /\ Len(stream.chunks) = 2
  /\ ret.value[1] = "string"

\* the UTF-16 code units of a string
UnitsOf(input) == IF input.type = "string" THEN encode(input.str) ELSE input.units

\* s1 + ... + sn: the code units of the concatenated string
RECURSIVE JoinedUnits(_)
JoinedUnits(inputs) ==
  IF inputs = <<>> THEN <<>>
  ELSE UnitsOf(Head(inputs)) \o JoinedUnits(Tail(inputs))

\* the one-shot hash of the concatenated string for the stream the caller fed
HashOfJoined ==
  OneShot(fed.create.op, Str16(JoinedUnits(fed.inputs)),
          fed.create.seed, fed.create.output)

\* C13 as stated: digest() of a stream fed the strings s1..sn returns the
\* one-shot hash of the string s1 + ... + sn.
StringChunksEqualJoined ==
  ret.call.op = "digest" => ret.value = HashOfJoined

\* a chunk ends with a high surrogate and the rest of the input goes on with
\* a low surrogate: the pair is split between two calls of update
SplitsPair(inputs) ==
  \E k \in 1..(Len(inputs) - 1) :
    LET p == Len(JoinedUnits(SubSeq(inputs, 1, k)))
        u == JoinedUnits(inputs)
    IN  /\ p >= 1 /\ p < Len(u)
        /\ IsHighSurrogate(u[p]) /\ IsLowSurrogate(u[p + 1])

\* C13 amended: digest() of a stream fed the strings s1..sn returns the
\* one-shot hash of s1 + ... + sn when no surrogate pair of the concatenated
\* string is split between two chunks; when a pair is split, each half is
\* encoded as U+FFFD and the digest is that of the bytes so encoded.
StringChunksEqualJoinedUnlessSplit ==
  ret.call.op = "digest" =>
    IF SplitsPair(fed.inputs)
    THEN ret.value = OneShot(fed.create.op, U8(Concatenation(fed.inputs)),
                             fed.create.seed, fed.create.output)
    ELSE ret.value = HashOfJoined

\* a stream fed a string with a whole surrogate pair and then an ASCII string
\* has returned the hash of the concatenated string
StreamedWholePair ==
  /\ ret.call.op = "digest"
  /\ fed.inputs = <<Str16(<<233, 8364, 55357, 56832>>), Str("hello")>>
  /\ ret.value = HashOfJoined

V3Ops == {"v3.x86.hash32", "v3.x86.hash128", "v3.x64.hash128"}

\* the seed written out: 0 when the caller omitted it
ExplicitSeed(seed) == IF seed = Undefined THEN JsNumber(Zero) ELSE seed

\* the call of the new API that the migration guide gives for a v3 call
NewApi(c) ==
  CASE c.op = "v3.x86.hash32" -> hash32(c.input, ExplicitSeed(c.seed))
    [] c.op = "v3.x86.hash128" ->
         hash128(c.input, Options(ExplicitSeed(c.seed), JsString("hex")))
    [] c.op = "v3.x64.hash128" ->
         hash128x64(c.input, Options(ExplicitSeed(c.seed), JsString("hex")))

\* C14: a v3 call returns what the function of the new API returns for the
\* same key and seed (seed 0 when the seed is omitted, hex output), whether
\* or not the deprecation warning was emitted before.
V3EqualsNewApi ==
  ret.call.op \in V3Ops => ret.value = NewApi(ret.call)

\* v3.x64.hash128 without a seed has returned the digest of hash128x64 on 16
\* bytes, after the warning was emitted and NODE_ENV set to production
V3SeedOmitted ==
  /\ ret.call = Call("v3.x64.hash128", Str("0123456789abcdef"), Undefined, Undefined)
  /\ ret.value = JsString("4be06d94cf4ad1a787c35b5c63a708da")
  /\ warned
  /\ nodeEnv = "production"

\* C15: the warning is printed at most once: by the first v3 call that runs
\* while NODE_ENV is not 'production', which sets the warned flag; no other
\* step prints or changes the flag, so a call that runs in production or
\* after the warning prints nothing and leaves the flag as it was.
WarnsOnce ==
  /\ [](warnings = IF warned THEN 1 ELSE 0)
  /\ [][IF call.op \in V3Ops /\ ~warned /\ nodeEnv # "production"
        THEN warned' /\ warnings' = 1
        ELSE UNCHANGED <<warned, warnings>>]_vars

\* a v3 call has returned without the warning ever being printed: it ran
\* while NODE_ENV was 'production'
V3CallInProduction ==
  /\ ret.call.op \in V3Ops
  /\ ~warned
  /\ warnings = 0

\* C16 as stated: once the caller has called digest(), no step changes the
\* buffered chunks or the total length of the stream.
ImmutableAfterDigest ==
  [][fed.digested =>
       /\ stream'.chunks = stream.chunks
       /\ stream'.totalLength = stream.totalLength]_vars

\* C16 amended: digest() leaves the buffered chunks and the total length as
\* they are, and the buffer stays open afterwards: an update made after
\* digest() appends its chunk and adds its length as before.
DigestKeepsBufferOpen ==
  [][/\ call.op = "digest" => stream' = stream
     /\ (fed.digested /\ call.op = "update" /\ call'.op = "idle") =>
          /\ stream'.chunks = Append(stream.chunks, toBytes(call.input))
          /\ stream'.totalLength = stream.totalLength + Len(toBytes(call.input))]_vars

\* update has returned on a stream whose digest was taken before, and the
\* stream holds the chunk
UpdatedAfterDigest ==
  /\ fed.digested
  /\ ret.call.op = "update"
  /\ Len(stream.chunks) = 2
  /\ stream.totalLength = 16

\* what digest() returns on a stream
DigestOf(st) ==
  CASE st.engine = "hash32" -> digest32(st)
    [] st.engine = "hash128" -> digest128(st)
    [] st.engine = "hash128x64" -> digest128x64(st)

\* C17: a byte the caller writes, between two calls, into an array it passed
\* to update does not change what digest() returns.
CallerWritesKeepDigest ==
  [][(call.op = "idle" /\ call'.op = "idle" /\ stream' # stream) =>
       DigestOf(stream') = DigestOf(stream)]_vars

\* C18: while a call runs, the caller's other stream object stays as it is,
\* and digest() returns the one-shot hash of the chunks that were passed to
\* the object it is called on, whatever calls were made on the other object
\* and whatever one-shot calls were made in between.
StreamsShareNoState ==
  [][call.op # "idle" =>
       /\ other' = other
       /\ call.op = "digest" =>
            ret'.value = OneShot(fed.create.op, U8(Concatenation(fed.inputs)),
                                 fed.create.seed, fed.create.output)]_vars

\* digest() has returned on a stream of one engine holding one chunk while
\* the other stream object, of another engine, holds two chunks and has
\* returned its digest before
DigestBesideOtherStream ==
  /\ ret.call.op = "digest"
  /\ call.op = "idle"
  /\ Len(stream.chunks) = 1
  /\ other.stream.engine \notin {"none", stream.engine}
  /\ Len(other.stream.chunks) = 2
  /\ other.fed.digested

\* ---- the block loop of hash128, lane by lane ----------------------------
\* the constants of lane j of the block loop: the multiplier of k, the
\* rotations of k and of h, and the constant added to h * 5
LaneC == <<C1, C2, C3, C4>>

LaneRotK == <<15, 16, 17, 18>>

LaneRotH == <<19, 17, 15, 13>>

LaneAdd == <<U32(\H561C, \HCD1B), U32(\H0BCA, \HA747),
             U32(\H96CD, \H1C35), U32(\H32AC, \H3B17)>>

\* lane j of a block: k is multiplied by C_j, rotated, multiplied by C_(j+1)
\* and XORed into h; h is rotated, the operand of the cross-lane addition is
\* added, and h becomes h * 5 + constant
LaneMix(j, h, k, operand) ==
  The({Add(multiply(h3, U32(0, 5)), LaneAdd[j]) :
         h3 \in {Add(rotl(h2, LaneRotH[j]), operand) :
                   h2 \in {Xor(h, multiply(k2, LaneC[(j % 4) + 1])) :
                             k2 \in {rotl(k1, LaneRotK[j]) :
                                       k1 \in {multiply(k, LaneC[j])}}}}})

\* <<h1, h2, h3, h4>> of hash128 for call c after n iterations of its block
\* loop
LanesAfterBlocks(c, n) ==
  The({<<v.h1, v.h2, v.h3, v.h4>> :
         v \in {Run("compute128.for", 1, 33 * n, w) :
                  w \in {Run("compute128", 1, 6, l) :
                           l \in {locals128(b, seedOrDefault(c.seed)) :
                                    b \in {toBytes(c.input)}}}}})

\* lane j of iteration i (from 0) of call c, given the operand of its
\* cross-lane addition
LaneOfBlock(c, i, j, operand) ==
  The({LaneMix(j, h, k, o) :
         h \in {LanesAfterBlocks(c, i)[j]},
         k \in {Word32LE(toBytes(c.input), (16 * i) + (4 * (j - 1)))},
         o \in {operand}})

\* C19 as stated: in every iteration every lane j adds the value lane
\* (j mod 4) + 1 had before the iteration, lane 4 adding that value of h1.
CrossLaneReadsPreUpdate ==
  ret.call.op = "hash128" =>
    \A i \in 0..((Len(toBytes(ret.call.input)) \div 16) - 1) : \A j \in 1..4 :
      LanesAfterBlocks(ret.call, i + 1)[j]
        = LaneOfBlock(ret.call, i, j, LanesAfterBlocks(ret.call, i)[(j % 4) + 1])

\* C19 amended: in every iteration lanes 1, 2 and 3 add the value the next
\* lane had before the iteration, and lane 4 adds the value h1 has after
\* lane 1 of the same iteration updated it.
CrossLaneReadsInOrder ==
  ret.call.op = "hash128" =>
    \A i \in 0..((Len(toBytes(ret.call.input)) \div 16) - 1) : \A j \in 1..4 :
      LanesAfterBlocks(ret.call, i + 1)[j]
        = LaneOfBlock(ret.call, i, j,
                      IF j < 4 THEN LanesAfterBlocks(ret.call, i)[j + 1]
                      ELSE LanesAfterBlocks(ret.call, i + 1)[1])

\* hash128 has returned on an input of two blocks, and in the second block
\* lane 4 is not what the value of h1 from before the block would give
TwoBlocksLaneFour ==
  /\ ret.call.op = "hash128"
  /\ Len(toBytes(ret.call.input)) \div 16 = 2
  /\ LanesAfterBlocks(ret.call, 2)[4]
       # LaneOfBlock(ret.call, 1, 4, LanesAfterBlocks(ret.call, 1)[1])

\* ---- the tail switch of hash128, lane by lane ---------------------------
\* the partial word of the tail bytes lo..hi of a tail that starts at base:
\* tail byte i at bit offset 8 * (i mod 4)
RECURSIVE TailWord(_, _, _, _)
TailWord(bytes, base, lo, hi) ==
  IF lo > hi THEN Zero
  ELSE Xor(Shl(ByteAt(bytes, base + lo), 8 * (lo % 4)),
           TailWord(bytes, base, lo + 1, hi))

\* the mix step of lane j of the tail: k is multiplied by C_j, rotated,
\* multiplied by C_(j+1) and XORed into h, and nothing else is done to h
TailMix(j, h, k) ==
  The({Xor(h, multiply(k2, LaneC[(j % 4) + 1])) :
         k2 \in {rotl(k1, LaneRotK[j]) : k1 \in {multiply(k, LaneC[j])}}})

\* the locals of hash128 for call c when compute reaches its switch
BeforeTail(c) ==
  The({Run("compute128", 1, 12, l) :
         l \in {locals128(b, seedOrDefault(c.seed)) : b \in {toBytes(c.input)}}})

\* <<h1, h2, h3, h4>> of call c once the switch has run its statements up to
\* statement p of the case list (none of them when p is before its entry)
LanesInTail(c, p) ==
  The({<<v.h1, v.h2, v.h3, v.h4>> :
         v \in {Run("compute128.switch", switchEntry128(w.len % 16), p, w) :
                  w \in {BeforeTail(c)}}})

\* lane j has tail bytes when the tail is t bytes long
LaneHasTail(j, t) == t >= (4 * (j - 1)) + 1

\* the value lane j has after the switch of call c, by the rule of the tail
\* cascade
LaneAfterTail(c, j) ==
  LET n == Len(toBytes(c.input))
      t == n % 16
      last == IF t - 1 < (4 * j) - 1 THEN t - 1 ELSE (4 * j) - 1
  IN  IF LaneHasTail(j, t)
      THEN The({TailMix(j, h, k) :
                  h \in {LanesInTail(c, 0)[j]},
                  k \in {TailWord(toBytes(c.input), n - t, 4 * (j - 1), last)}})
      ELSE LanesInTail(c, 0)[j]

\* C20: in hash128 a tail of t bytes XORs tail byte i into the partial word
\* of lane floor(i / 4) + 1 at bit offset 8 * (i mod 4); lane j is mixed
\* exactly once (multiply, rotate, multiply, XOR into h_j, no rotate or add
\* after it) when t >= 4 * (j - 1) + 1 and is left alone otherwise, so that no
\* lane is touched when t = 0; and the lanes are mixed in the order 4, 3, 2, 1:
\* at every point of the switch a lane is either still untouched or final,
\* and when it is final every higher lane that has tail bytes is final too.
TailCascade ==
  ret.call.op = "hash128" =>
    LET c == ret.call
        t == Len(toBytes(c.input)) % 16
    IN  /\ \A j \in 1..4 : LanesInTail(c, 31)[j] = LaneAfterTail(c, j)
        /\ \A p \in 0..31 : \A j \in 1..4 :
              /\ LanesInTail(c, p)[j] \in {LanesInTail(c, 0)[j], LaneAfterTail(c, j)}
              /\ (LaneHasTail(j, t) /\ LanesInTail(c, p)[j] # LanesInTail(c, 0)[j])
                   => \A i \in (j + 1)..4 :
                        LaneHasTail(i, t) => LanesInTail(c, p)[i] = LaneAfterTail(c, i)

\* hash128 has returned on an input of 15 bytes, all of them tail, and the
\* switch has changed every one of its four lanes
TailOfFifteenBytes ==
  /\ ret.call.op = "hash128"
  /\ Len(toBytes(ret.call.input)) = 15
  /\ \A j \in 1..4 : LanesInTail(ret.call, 31)[j] # LanesInTail(ret.call, 0)[j]

\* ---- the tail switch of hash128x64, lane by lane ------------------------
\* the 64-bit partial word <<hi, lo>> of the tail bytes lo..hi of a group
\* that starts at tail byte first, the tail starting at base: the byte at
\* offset o of the group at bit offset 8 * o of the 64 bits
RECURSIVE TailWord64(_, _, _, _, _)
TailWord64(bytes, base, first, lo, hi) ==
  IF lo > hi THEN <<Zero, Zero>>
  ELSE The({IF lo - first < 4
            THEN <<w[1], Xor(w[2], Shl(ByteAt(bytes, base + lo), 8 * (lo - first)))>>
            ELSE <<Xor(w[1], Shl(ByteAt(bytes, base + lo), 8 * (lo - first - 4))), w[2]>> :
            w \in {TailWord64(bytes, base, first, lo + 1, hi)}})

\* the mix step of lane j of the tail: k is multiplied by one constant,
\* rotated, multiplied by the other constant and XORed into h
TailMix64(j, h, k) ==
  The({xor64(h, multiply64(k2, IF j = 1 THEN C2_64 ELSE C1_64)) :
         k2 \in {rotl64(k1, IF j = 1 THEN 31 ELSE 33) :
                   k1 \in {multiply64(k, IF j = 1 THEN C1_64 ELSE C2_64)}}})

\* the locals of hash128x64 for call c when compute reaches its switch
BeforeTail64(c) ==
  The({Run("compute128x64", 1, 8, l) :
         l \in {locals128x64(b, seedOrDefault(c.seed)) : b \in {toBytes(c.input)}}})

\* <<h1, h2>> of call c once the switch has run its statements up to
\* statement p of the case list (none of them when p is before its entry)
LanesInTail64(c, p) ==
  The({<<v.h1, v.h2>> :
         v \in {Run("compute128x64.switch", switchEntry128x64(w.len % 16), p, w) :
                  w \in {BeforeTail64(c)}}})

\* the value lane j has after the switch of call c when its partial word is
\* built from the tail bytes 8 * (j - 1) up to last, as far as the tail has
\* them, and the lane is mixed when it has a byte
LaneAfterTail64(c, j, last) ==
  LET n == Len(toBytes(c.input))
      t == n % 16
      hi == IF t - 1 < last THEN t - 1 ELSE last
  IN  IF t >= (8 * (j - 1)) + 1
      THEN The({TailMix64(j, h, k) :
                  h \in {LanesInTail64(c, 0)[j]},
                  k \in {TailWord64(toBytes(c.input), n - t, 8 * (j - 1),
                                    8 * (j - 1), hi)}})
      ELSE LanesInTail64(c, 0)[j]

\* the order of the two mix steps: at every point of the switch a lane is
\* untouched or final, and lane 1 is touched only once lane 2 is final
TailOrder64(c, last1) ==
  \A p \in 0..23 :
    /\ LanesInTail64(c, p)[2] \in {LanesInTail64(c, 0)[2], LaneAfterTail64(c, 2, 14)}
    /\ LanesInTail64(c, p)[1] \in {LanesInTail64(c, 0)[1], LaneAfterTail64(c, 1, last1)}
    /\ LanesInTail64(c, p)[1] # LanesInTail64(c, 0)[1]
         => LanesInTail64(c, p)[2] = LaneAfterTail64(c, 2, 14)

\* C21 as stated: in hash128x64 k2 is built from the tail bytes 8..14 and k1
\* from the tail bytes 0..6, each byte shifted left by 8 times its offset in
\* its group; k2 is mixed once when the tail has at least 9 bytes, then k1 is
\* mixed once when the tail has at least 1 byte.
TailCascade64UpToSix ==
  ret.call.op = "hash128x64" =>
    /\ LanesInTail64(ret.call, 23)[2] = LaneAfterTail64(ret.call, 2, 14)
    /\ LanesInTail64(ret.call, 23)[1] = LaneAfterTail64(ret.call, 1, 6)
    /\ TailOrder64(ret.call, 6)

\* C21 amended: as stated, but k1 is built from the tail bytes 0..7.
TailCascade64 ==
  ret.call.op = "hash128x64" =>
    /\ LanesInTail64(ret.call, 23)[2] = LaneAfterTail64(ret.call, 2, 14)
    /\ LanesInTail64(ret.call, 23)[1] = LaneAfterTail64(ret.call, 1, 7)
    /\ TailOrder64(ret.call, 7)

\* hash128x64 has returned on an input of 15 bytes, all of them tail: the
\* switch has changed both lanes, and lane 1 is not what the tail bytes 0..6
\* alone would give
TailOfFifteenBytes64 ==
  /\ ret.call.op = "hash128x64"
  /\ Len(toBytes(ret.call.input)) = 15
  /\ \A j \in 1..2 : LanesInTail64(ret.call, 23)[j] # LanesInTail64(ret.call, 0)[j]
  /\ LanesInTail64(ret.call, 23)[1] # LaneAfterTail64(ret.call, 1, 6)

\* ---- multiply on its own ------------------------------------------------
\* the int32 congruent to a * b modulo 2^32, from the 16-bit limbs of a and
\* b modulo 2^32 by the schoolbook product
Product32(a, b) ==
  ToInt32(<<0,
            (MulHi16(a[3], b[3]) + MulLo16(a[3], b[2]) + MulLo16(a[2], b[3])) % W16,
            MulLo16(a[3], b[3])>>)

\* x is an integer below 2^53 in magnitude
Below2p53(x) ==
  /\ x[1] \in (1 - (2 ^ 21))..((2 ^ 21) - 1)
  /\ x[2] \in 0..65535
  /\ x[3] \in 0..65535

\* C22: for every integer a from -2^34 to 2^34 and every b in 0 .. 2^32 - 1,
\* multiply(a, b) is the signed 32-bit value congruent to a * b modulo 2^32,
\* and every value it forms on the way is below 2^53 in magnitude.
MultiplyIsProductMod32 ==
  ret.call.op = "multiply" =>
    LET a == ret.call.input[1]
        b == ret.call.input[2]
    IN  /\ ret.value = Product32(a, b)
        /\ ret.value[1] = (IF ret.value[2] >= 32768 THEN -1 ELSE 0)
        /\ \A i \in DOMAIN multiplyTerms(a, b) : Below2p53(multiplyTerms(a, b)[i])
        /\ Or(multiplyTerms(a, b)[7], Zero) = ret.value

\* multiply has returned a negative value for a first operand beyond 32
\* bits and the second operand 0xcc9ecc9e, and the high partial product was
\* not zero
MultiplyOfUntruncatedSum ==
  /\ ret.call.op = "multiply"
  /\ ret.call.input[1][1] = 3
  /\ ret.call.input[2] = U32(\HCC9E, \HCC9E)
  /\ ret.value[1] = -1
  /\ multiplyTerms(ret.call.input[1], ret.call.input[2])[6] # Zero

\* ---- multiply64 on its own ----------------------------------------------
\* the four 16-bit limbs of the 64-bit value of <<hi, lo>>, lowest first
Limbs64(x) == <<x[2][3], x[2][2], x[1][3], x[1][2]>>

\* the low 64 bits of the product of two 64-bit values given by their limbs,
\* by the schoolbook product: column k collects the low halves of the limb
\* products of weight k and the high halves of those of weight k - 1, and
\* the carry of a column goes into the next
Product64(A, B) ==
  LET col1 == MulLo16(A[1], B[1])
      col2 == MulLo16(A[1], B[2]) + MulLo16(A[2], B[1]) + MulHi16(A[1], B[1])
                + (col1 \div W16)
      col3 == MulLo16(A[1], B[3]) + MulLo16(A[2], B[2]) + MulLo16(A[3], B[1])
                + MulHi16(A[1], B[2]) + MulHi16(A[2], B[1]) + (col2 \div W16)
      col4 == MulLo16(A[1], B[4]) + MulLo16(A[2], B[3]) + MulLo16(A[3], B[2])
                + MulLo16(A[4], B[1]) + MulHi16(A[1], B[3]) + MulHi16(A[2], B[2])
                + MulHi16(A[3], B[1]) + (col3 \div W16)
  IN  <<ToInt32(<<0, col4 % W16, col3 % W16>>), ToInt32(<<0, col2 % W16, col1 % W16>>)>>

\* the statements of multiply64 that add a carry, with the limb the carry
\* comes out of and the limb it goes into
CarrySteps64 ==
  {<<5, "c3", "c2">>, <<8, "c2", "c1">>, <<11, "c2", "c1">>,
   <<14, "c1", "c0">>, <<17, "c1", "c0">>, <<20, "c1", "c0">>}

\* the locals of multiply64(a, b) after its statements 1..p
Locals64After(a, b, p) ==
  The({Run("multiply64", 1, p, v) : v \in {locals64(a, b)}})

\* C23: for all pairs a and b of signed or unsigned 32-bit words
\* multiply64(a, b) is the pair whose 64-bit value is the low 64 bits of the
\* product of the two 64-bit values, and each carry out of a 16-bit limb is
\* added to the next-higher limb before the limb is masked to 16 bits.
Multiply64IsProductMod64 ==
  ret.call.op = "multiply64" =>
    LET a == ret.call.input[1]
        b == ret.call.input[2]
    IN  /\ ret.value = Product64(Limbs64(a), Limbs64(b))
        /\ \A c \in CarrySteps64 :
              /\ Locals64After(a, b, c[1])[c[3]]
                   = Add(Locals64After(a, b, c[1] - 1)[c[3]],
                         Ushr(Locals64After(a, b, c[1] - 1)[c[2]], 16))
              /\ Locals64After(a, b, c[1])[c[2]] = Locals64After(a, b, c[1] - 1)[c[2]]
              /\ Locals64After(a, b, c[1] + 1)[c[2]]
                   = And(Locals64After(a, b, c[1] - 1)[c[2]], MASK16)

\* multiply64 has returned for two operands of negative words, and the
\* lowest limb carried into the next
Multiply64WithCarry ==
  /\ ret.call.op = "multiply64"
  /\ ret.call.input[1] = <<Num(-1, \H8000, 1), Num(-1, \HFFFF, \HFFFF)>>
  /\ ret.call.input[2] = <<Num(-1, \H8000, 1), U32(\H87C3, \H7B91)>>
  /\ Ushr(Locals64After(ret.call.input[1], ret.call.input[2], 4).c3, 16) # Zero

\* ---- rotl64 on its own --------------------------------------------------
\* the limbs L (lowest first) of a 64-bit value rotated left by n bits,
\* 0 <= n < 64: limb k takes the low bits of the limb n \div 16 places below
\* it and the high bits of the limb below that one
RotatedLimbs(L, n) ==
  [k \in 1..4 |->
     ((L[((k - 1 - (n \div 16) + 4) % 4) + 1] * (2 ^ (n % 16))) % W16)
       + (L[((k - 2 - (n \div 16) + 8) % 4) + 1] \div (2 ^ (16 - (n % 16))))]

\* the pair of int32 words with the limbs L (lowest first)
PairOfLimbs(L) == <<ToInt32(<<0, L[4], L[3]>>), ToInt32(<<0, L[2], L[1]>>)>>

Rotl64RotatesUnlessZero ==
  ret.call.op = "rotl64" =>
    <<ToInt32(ret.value[1]), ToInt32(ret.value[2])>>
      = IF ret.call.input[2] % 64 = 0
        THEN <<Or(ret.call.input[1][1], ret.call.input[1][2]),
               Or(ret.call.input[1][1], ret.call.input[1][2])>>
        ELSE PairOfLimbs(RotatedLimbs(Limbs64(ret.call.input[1]),
                                      ret.call.input[2] % 64))

DigestChangesNothing ==
  /\ []((kept.call.op = "digest" /\ ret.call.op = "digest") => ret.value = kept.value)
  /\ [][(call.op = "digest" /\ call'.op = "idle") =>
         /\ stream'.chunks = stream.chunks
         /\ stream'.totalLength = stream.totalLength
         /\ stream'.seed = stream.seed
         /\ stream'.outputFormat = stream.outputFormat
         /\ stream'.engine = stream.engine]_vars

\* a hash128 stream holding two chunks has returned from digest() what an
\* earlier digest() returned
DigestRepeated ==
  /\ kept.call.op = "digest"
  /\ ret.call.op = "digest"
  /\ kept.value = ret.value
  /\ stream.engine = "hash128"
  /\ Len(stream.chunks) = 2
  /\ stream.totalLength = 16

\* the sum of the lengths of the chunks
RECURSIVE SumOfLengths(_)
SumOfLengths(chunks) ==
  IF chunks = <<>> THEN 0 ELSE Len(Head(chunks)) + SumOfLengths(Tail(chunks))

\* the chunks one after the other
RECURSIVE Joined(_)
Joined(chunks) ==
  IF chunks = <<>> THEN <<>> ELSE Head(chunks) \o Joined(Tail(chunks))

\* C26: in every state of a stream, after any sequence of update and digest
\* calls, totalLength is the sum of the lengths of the chunks and the chunks
\* are those of the update calls in their order, so that the buffer digest()
\* allocates is filled exactly by the chunks, with no gap and no overrun;
\* and each update(c) appends exactly one chunk, the bytes of c, adds their
\* number to totalLength and returns the instance it was called on.
BufferAccounting ==
  /\ [](stream.engine # "none" =>
          /\ stream.totalLength = SumOfLengths(stream.chunks)
          /\ Len(stream.chunks) = Len(fed.inputs) - (IF call.op = "update" THEN 1 ELSE 0)
          /\ \A k \in 1..Len(stream.chunks) : stream.chunks[k] = toBytes(fed.inputs[k])
          /\ digestBuffer(stream) = [ok |-> TRUE, bytes |-> Joined(stream.chunks)]
          /\ Len(digestBuffer(stream).bytes) = stream.totalLength)
  /\ [][(call.op = "update" /\ call'.op = "idle") =>
         /\ stream'.chunks = Append(stream.chunks, toBytes(call.input))
         /\ stream'.totalLength = stream.totalLength + Len(toBytes(call.input))
         /\ stream'.engine = stream.engine
         /\ stream'.seed = stream.seed
         /\ stream'.outputFormat = stream.outputFormat
         /\ ret'.value = <<"stream", stream.engine>>]_vars

\* a stream that has been digested was then fed a second chunk: it holds two
\* chunks of 5 and 11 bytes in the order of the calls
FedAfterDigest ==
  /\ stream.engine = "hash128x64"
  /\ fed.digested
  /\ ret.call.op = "update"
  /\ fed.inputs = <<Str("01234"), U8(<<0, 255, 128, 1, 200, 7, 64, 250, 99, 16, 177>>)>>
  /\ stream.totalLength = 16

\* the k-th word of 8 hex digits of a digest of 32 digits
HexWord(str, k) == SubSeq(str, (8 * (k - 1)) + 1, 8 * k)

\* C27: for every seed, the digest hash128 returns for an input of at most
\* 4 bytes has its 2nd, 3rd and 4th words of 8 hex digits equal, and the
\* digest for an input of at most 8 bytes has its 3rd and 4th words equal.
ShortInputLanesEqual ==
  ret.call.op = "hash128" =>
    /\ Len(toBytes(ret.call.input)) <= 4 =>
         /\ HexWord(ret.value[2], 2) = HexWord(ret.value[2], 3)
         /\ HexWord(ret.value[2], 3) = HexWord(ret.value[2], 4)
    /\ Len(toBytes(ret.call.input)) <= 8 =>
         HexWord(ret.value[2], 3) = HexWord(ret.value[2], 4)

\* hash128 has returned for 4 bytes under the seed -1 a digest whose last
\* three words are equal and differ from the first
FourBytesThreeWordsEqual ==
  /\ ret.call = Call("hash128", U8(<<1, 2, 3, 4>>),
                     JsNumber(Num(-1, \HFFFF, \HFFFF)), Undefined)
  /\ HexWord(ret.value[2], 2) = HexWord(ret.value[2], 3)
  /\ HexWord(ret.value[2], 3) = HexWord(ret.value[2], 4)
  /\ HexWord(ret.value[2], 1) # HexWord(ret.value[2], 2)

\* ---- deferred truncation ------------------------------------------------
\* bodies of hash32 (one accumulator) and bodies of hash128 (four)
Bodies32 == {"compute32", "compute32.for", "compute32.switch"}

\* the locals v of body f with every accumulator reduced modulo 2^32 (to
\* its int32)
Reduced(f, v) ==
  IF f \in Bodies32 THEN [v EXCEPT !.h1 = ToInt32(@)]
  ELSE [v EXCEPT !.h1 = ToInt32(@), !.h2 = ToInt32(@),
                 !.h3 = ToInt32(@), !.h4 = ToInt32(@)]

\* an engine that reduces every addition modulo 2^32 at once: the statements
\* of the code, each followed by the reduction of the accumulators
RECURSIVE RunReduced(_, _, _, _)
RECURSIVE StepReduced(_, _, _)
StepReduced(f, i, v) ==
  IF f = "compute32" /\ i = 4 THEN RunReduced("compute32.for", 1, v.blocks * 8, v)
  ELSE IF f = "compute128" /\ i = 7 THEN RunReduced("compute128.for", 1, v.blocks * 33, v)
  ELSE The({Reduced(f, w) : w \in {Step(f, i, v)}})

RunReduced(f, lo, hi, v) ==
  IF lo < hi
  THEN The({RunReduced(f, ((lo + hi) \div 2) + 1, hi, w) :
              w \in {RunReduced(f, lo, (lo + hi) \div 2, v)}})
  ELSE IF lo = hi THEN StepReduced(f, lo, v) ELSE v

\* the local variables of compute of hash32 when it is entered
Locals32(bytes, seed) ==
  [bytes |-> bytes, seed |-> seed, len |-> 0, blocks |-> 0, h1 |-> Zero,
   offset |-> 0, k1 |-> Zero, tailOffset |-> 0, return |-> Zero]

\* the locals of call c when compute is entered
LocalsOf(c) ==
  The({IF c.op = "hash32" THEN Locals32(b, seedOrDefault(c.seed))
       ELSE locals128(b, seedOrDefault(c.seed)) : b \in {toBytes(c.input)}})

\* what call c returns from the engine that reduces at once
ReducedDigest(c) ==
  IF c.op = "hash32"
  THEN JsNumber(The({RunReduced("compute32", 1, 10, l) : l \in {LocalsOf(c)}}).return)
  ELSE JsString(The({RunReduced("compute128", 1, 34, l) : l \in {LocalsOf(c)}}).return)

\* x is an integer from -2^34 to 2^34 - 1: an operand multiply takes, and
\* far below 2^53 in magnitude
Within2p34(x) == x[1] \in -4..3 /\ x[2] \in 0..65535 /\ x[3] \in 0..65535

\* the accumulators and partial words of the locals v of body f
NumbersOf(f, v) ==
  IF f \in Bodies32 THEN <<v.h1, v.k1>>
  ELSE <<v.h1, v.h2, v.h3, v.h4, v.k1, v.k2, v.k3, v.k4>>

\* after each of the statements lo..hi of body f, run on the locals v, every
\* accumulator and partial word is within -2^34 .. 2^34 - 1
RECURSIVE StatementsWithin(_, _, _, _)
StatementsWithin(f, lo, hi, v) ==
  IF lo > hi THEN TRUE
  ELSE IF lo = hi
  THEN \A w \in {Step(f, lo, v)} :
         \A i \in DOMAIN NumbersOf(f, w) : Within2p34(NumbersOf(f, w)[i])
  ELSE /\ StatementsWithin(f, lo, (lo + hi) \div 2, v)
       /\ \A w \in {Run(f, lo, (lo + hi) \div 2, v)} :
            StatementsWithin(f, ((lo + hi) \div 2) + 1, hi, w)

\* every statement of call c, those of its block loop included, leaves the
\* accumulators and partial words within -2^34 .. 2^34 - 1
CallWithin(c) ==
  IF c.op = "hash32"
  THEN /\ StatementsWithin("compute32", 1, 9, LocalsOf(c))
       /\ \A w \in {Run("compute32", 1, 3, LocalsOf(c))} :
            StatementsWithin("compute32.for", 1, w.blocks * 8, w)
  ELSE /\ StatementsWithin("compute128", 1, 33, LocalsOf(c))
       /\ \A w \in {Run("compute128", 1, 6, LocalsOf(c))} :
            StatementsWithin("compute128.for", 1, w.blocks * 33, w)

\* C28: in hash32 and hash128 the additions h = multiply(h, 5) + A and
\* h_i += h_j are not reduced to 32 bits where they are written, yet for
\* every input and every seed in 0 .. 2^32 - 1 every value stays below 2^53
\* in magnitude (within -2^34 .. 2^34 - 1, the operands multiply takes) and
\* the digest is that of an engine that reduces every addition modulo 2^32
\* at once.
DeferredTruncationExact ==
  (ret.call.op \in {"hash32", "hash128"} /\ IsUint32(seedOrDefault(ret.call.seed))) =>
    /\ ret.value = ReducedDigest(ret.call)
    /\ CallWithin(ret.call)

\* hash128 has returned for 33 bytes under the seed 0xffffffff, and in its
\* block loop an accumulator went beyond the 32 bits of int32 and uint32
DeferredBeyond32Bits ==
  /\ ret.call.op = "hash128"
  /\ Len(toBytes(ret.call.input)) = 33
  /\ ret.call.seed = JsNumber(U32(\HFFFF, \HFFFF))
  /\ \E q \in 1..66 :
       \E w \in {Run("compute128.for", 1, q, Run("compute128", 1, 6, LocalsOf(ret.call)))} :
         \E i \in 1..4 : NumbersOf("compute128", w)[i][1] \notin {-1, 0}

====
